---- MODULE Spec2Model ----
(***************************************************************************)
(* UpdateLens: the filter normalization and resolution engine              *)
(* (services/FilterNormalization, services/FilterService,                  *)
(* services/FilterMetadata, services/FilterDefinitions) and the stores     *)
(* that hold the filters and the customers (store/useFilterStore,          *)
(* store/useCustomerStore), with the page handlers that drive them.        *)
(*                                                                         *)
(* Representation.  A JavaScript string that the code takes apart          *)
(* (productName, title, description, query) is a sequence of one-character *)
(* strings; the character "h" stands for the four letters "http" and ":"   *)
(* for the three characters "://", so that the URL pattern of              *)
(* normalizeProductLabel has something to match.  A string the code only   *)
(* compares (status, wave, ...) is a TLA+ string, a missing optional       *)
(* string is "" (the code reads it through `?? ''` or `!x`).  An array is  *)
(* a sequence.  A date string is a record [k, v]: k = "ym" for YYYY-MM     *)
(* with v the month number, k = "ymd" for YYYY-MM-DD with v the day        *)
(* number, k = "bad" for text that does not parse, k = "none" for the      *)
(* empty or missing string.  An instant is a number of ticks, TicksPerDay  *)
(* ticks to the day and DaysPerMonth days to every month.                  *)
(***************************************************************************)
EXTENDS Integers, Sequences, FiniteSets, TLC

\* null / undefined where the code holds a string
NULL == "null"
\* null where the code holds a number or a Date (every number of the model is >= 0)
NONE == -1
\* null where the code holds a FilterState
NullFilters == [null |-> TRUE]
IsNullFilters(filters) == "null" \in DOMAIN filters

----------------------------------------------------------------------------
(* Sequence helpers (Array.prototype.includes / filter / Set insertion)    *)

Range(s) == {s[i] : i \in 1..Len(s)}

Includes(s, v) == \E i \in 1..Len(s) : s[i] = v

\* Array.from(new Set(s)): first occurrences, in order
RECURSIVE Dedupe(_)
Dedupe(s) ==
  IF s = <<>> THEN <<>>
  ELSE LET init == Dedupe(SubSeq(s, 1, Len(s) - 1))
           last == s[Len(s)]
       IN IF Includes(init, last) THEN init ELSE Append(init, last)

\* set.add(v) for each v of `more`, in order
AddAll(s, more) == Dedupe(s \o more)

\* the values of a set in the order of `before`, the pairs <<a, b>> with a sorting
\* ahead of b (Array.prototype.sort on distinct keys)
SortSet(S, before) ==
  [i \in 1..Cardinality(S) |->
     CHOOSE x \in S : Cardinality({y \in S : <<y, x>> \in before}) = i - 1]

----------------------------------------------------------------------------
(* Characters                                                              *)

Whitespace == {" ", "\t"}
Brackets == {"[", "]", "(", ")"}

\* String.prototype.toLowerCase / toUpperCase, one character at a time
LowerChar(c) ==
  CASE c = "A" -> "a" [] c = "B" -> "b" [] c = "C" -> "c" [] c = "H" -> "h" [] OTHER -> c
UpperChar(c) ==
  CASE c = "a" -> "A" [] c = "b" -> "B" [] c = "c" -> "C" [] c = "h" -> "H" [] OTHER -> c

ToLower(s) == [i \in 1..Len(s) |-> LowerChar(s[i])]

\* least index >= from holding a character of C, 0 when there is none
FirstIn(s, C, from) ==
  IF \E i \in from..Len(s) : s[i] \in C
  THEN CHOOSE i \in from..Len(s) : s[i] \in C /\ \A j \in from..(i - 1) : s[j] \notin C
  ELSE 0

\* String.prototype.trim
Trim(s) ==
  IF \A i \in 1..Len(s) : s[i] \in Whitespace THEN <<>>
  ELSE LET a == CHOOSE i \in 1..Len(s) :
                  s[i] \notin Whitespace /\ \A j \in 1..(i - 1) : s[j] \in Whitespace
           b == CHOOSE i \in 1..Len(s) :
                  s[i] \notin Whitespace /\ \A j \in (i + 1)..Len(s) : s[j] \in Whitespace
       IN SubSeq(s, a, b)

\* label.replace(/\[([^\]]+)\]\([^)]+\)/g, '$1'), scanning from index i
RECURSIVE StripLinksFrom(_, _)
StripLinksFrom(s, i) ==
  IF i > Len(s) THEN <<>>
  ELSE LET j == FirstIn(s, {"]"}, i + 1)
           k == IF j = 0 THEN 0 ELSE FirstIn(s, {")"}, j + 2)
           matches == /\ s[i] = "["
                      /\ j > i + 1
                      /\ j + 1 <= Len(s)
                      /\ s[j + 1] = "("
                      /\ k > j + 2
       IN IF matches
          THEN SubSeq(s, i + 1, j - 1) \o StripLinksFrom(s, k + 1)
          ELSE <<s[i]>> \o StripLinksFrom(s, i + 1)

\* label.replace(/https?:\/\/[^\s]+/gi, ''), scanning from index i
RECURSIVE StripUrlsFrom(_, _)
StripUrlsFrom(s, i) ==
  IF i > Len(s) THEN <<>>
  ELSE LET matches == /\ LowerChar(s[i]) = "h"
                      /\ i + 2 <= Len(s)
                      /\ s[i + 1] = ":"
                      /\ s[i + 2] \notin Whitespace
           stop == FirstIn(s, Whitespace, i + 2)
       IN IF matches
          THEN (IF stop = 0 THEN <<>> ELSE StripUrlsFrom(s, stop))
          ELSE <<s[i]>> \o StripUrlsFrom(s, i + 1)

\* label.replace(/[[\]()]/g, '')
StripBrackets(s) == SelectSeq(s, LAMBDA c : c \notin Brackets)

\* label.trim().replace(/\s+/g, ' ')
RECURSIVE CollapseFrom(_, _)
CollapseFrom(s, i) ==
  IF i > Len(s) THEN <<>>
  ELSE IF s[i] \in Whitespace
       THEN (IF i > 1 /\ s[i - 1] \in Whitespace THEN <<>> ELSE <<" ">>)
            \o CollapseFrom(s, i + 1)
       ELSE <<s[i]>> \o CollapseFrom(s, i + 1)

CollapseWhitespace(s) == CollapseFrom(Trim(s), 1)

\* toLowerCase().split(' ').map(capitalize first character).join(' ')
TitleCase(s) ==
  [i \in 1..Len(s) |->
     IF i = 1 \/ s[i - 1] = " " THEN UpperChar(LowerChar(s[i])) ELSE LowerChar(s[i])]

normalizeProductLabel(raw) ==
  IF raw = <<>> THEN <<>>
  ELSE TitleCase(CollapseWhitespace(StripBrackets(StripUrlsFrom(StripLinksFrom(raw, 1), 1))))

\* normalizedKey: label.toLowerCase().trim()
normalizedKey(label) == Trim(ToLower(label))

----------------------------------------------------------------------------
(* Collation (String.prototype.localeCompare) on the values the model uses *)

CharOrder == <<" ", "\t", "(", ")", ":", "[", "]", "1", "2",
               "a", "A", "b", "B", "c", "C", "h", "H">>
CharRank(c) == CHOOSE i \in 1..Len(CharOrder) : CharOrder[i] = c

\* a.localeCompare(b) < 0 for two labels
LabelLess(a, b) ==
  \/ /\ Len(a) < Len(b)
     /\ \A i \in 1..Len(a) : a[i] = b[i]
  \/ \E i \in 1..Len(a) :
       /\ i <= Len(b)
       /\ \A j \in 1..(i - 1) : a[j] = b[j]
       /\ CharRank(a[i]) < CharRank(b[i])

AtomOrder == <<"Admins", "Cat A", "Cat B", "en", "EOS", "GA", "Germany", "it", "Italy",
               "Launched", "Microsoft", "Planned", "Preview", "Stale", "tag1", "tag2",
               "Users", "Wave 1", "Wave 2">>
AtomRank(v) == CHOOSE i \in 1..Len(AtomOrder) : AtomOrder[i] = v
AtomLess(a, b) == AtomRank(a) < AtomRank(b)

----------------------------------------------------------------------------
(* Dates (toMonthDate, addMonths, parseDateAny of services/FilterService)  *)

TicksPerDay == 2
DaysPerMonth == 3

NoDate == [k |-> "none", v |-> 0]
BadDate == [k |-> "bad", v |-> 0]
Ym(m) == [k |-> "ym", v |-> m]
Ymd(d) == [k |-> "ymd", v |-> d]

MonthStart(m) == m * DaysPerMonth * TicksPerDay

\* toMonthDate: the first day of the month the text names, NONE when it names none
toMonthDate(value) ==
  CASE value.k = "ym" -> MonthStart(value.v)
    [] value.k = "ymd" -> MonthStart(value.v \div DaysPerMonth)
    [] OTHER -> NONE

addMonths(date, months) == date + months * DaysPerMonth * TicksPerDay

parseDateAny(value) ==
  CASE value.k = "none" -> NONE
    [] value.k = "ymd" -> value.v * TicksPerDay
    [] OTHER -> toMonthDate(value)

\* b.value.localeCompare(a.value) on availability months: text sorts after digits
DateLess(a, b) ==
  IF a.k = "bad" THEN FALSE
  ELSE IF b.k = "bad" THEN TRUE
  ELSE a.v < b.v

----------------------------------------------------------------------------
(* Release items (models/ReleaseItem)                                      *)

ALL_RELEASE_SOURCES == <<"Microsoft", "EOS">>

BlankItem ==
  [id |-> "", source |-> "Microsoft", productName |-> <<>>, status |-> "Planned",
   category |-> "", tags |-> <<>>, wave |-> "", availabilityTypes |-> <<>>,
   enabledFor |-> "", geography |-> <<>>, geographyCountries |-> <<>>,
   language |-> "", lastUpdatedDate |-> NoDate, title |-> <<>>, description |-> <<>>,
   availabilityDate |-> NoDate, releaseDate |-> NoDate, minBcVersion |-> NONE]

\* utils/geography extractCountriesFromHtml: the geography markup of an item is kept
\* as the country names its text mentions, in order; the extraction drops the
\* repeated ones
extractCountriesFromHtml(html) == Dedupe(html)

ItemGeography(item) ==
  IF Len(item.geographyCountries) > 0
  THEN item.geographyCountries
  ELSE extractCountriesFromHtml(item.geography)

----------------------------------------------------------------------------
(* Filter metadata (services/FilterMetadata)                               *)

Indices(items) == 1..Len(items)

\* number of occurrences of v in the sequence s
Occurrences(s, v) == Cardinality({i \in 1..Len(s) : s[i] = v})

\* the map both countValues and sortMonthsDesc build: one option per distinct
\* non-empty value, with the number of its occurrences and the sources it occurs in;
\* extracted[i] is extractValues(items[i])
CountedOptions(items, extracted, Empty) ==
  LET values == UNION {Range(extracted[i]) : i \in Indices(items)} \ {Empty}
      sum[n \in 0..Len(items)] ==
        [v \in values |->
           IF n = 0 THEN 0 ELSE sum[n - 1][v] + Occurrences(extracted[n], v)]
  IN {[value |-> v,
       count |-> sum[Len(items)][v],
       sources |-> {items[i].source : i \in {j \in Indices(items) :
                                            Includes(extracted[j], v)}}] : v \in values}

countValues(items, extracted) ==
  LET options == CountedOptions(items, extracted, "")
  IN SortSet(options, {p \in options \X options : AtomLess(p[1].value, p[2].value)})

sortMonthsDesc(items, extracted) ==
  LET options == CountedOptions(items, extracted, NoDate)
  IN SortSet(options, {p \in options \X options : DateLess(p[2].value, p[1].value)})

\* countProductsWithNormalization whose groups keep only the source that opened them
countProductsFirstSource(items) ==
  LET Label(i) == normalizeProductLabel(items[i].productName)
      Key(i) == normalizedKey(Label(i))
      counted == {i \in Indices(items) : items[i].productName # <<>> /\ Key(i) # <<>>}
      firsts == {i \in counted : \A j \in counted : Key(j) = Key(i) => i <= j}
      group(i) == {j \in counted : Key(j) = Key(i)}
      options == {[value |-> Label(i),
                   count |-> Cardinality(group(i)),
                   sources |-> {items[i].source}] : i \in firsts}
  IN SortSet(options, {p \in options \X options : LabelLess(p[1].value, p[2].value)})

\* countProductsWithNormalization: groups keyed by normalizedKey of the normalized
\* label; a group keeps the label of the first item that opened it
countProductsWithNormalization(items) ==
  LET Label(i) == normalizeProductLabel(items[i].productName)
      Key(i) == normalizedKey(Label(i))
      counted == {i \in Indices(items) : items[i].productName # <<>> /\ Key(i) # <<>>}
      firsts == {i \in counted : \A j \in counted : Key(j) = Key(i) => i <= j}
      group(i) == {j \in counted : Key(j) = Key(i)}
      options == {[value |-> Label(i),
                   count |-> Cardinality(group(i)),
                   sources |-> {items[j].source : j \in group(i)}] : i \in firsts}
  IN SortSet(options, {p \in options \X options : LabelLess(p[1].value, p[2].value)})

buildFilterMetadata(items) ==
  LET Each(Extract(_)) == [i \in Indices(items) |-> Extract(items[i])]
  IN [sources |-> countValues(items, Each(LAMBDA item : <<item.source>>)),
      products |-> countProductsWithNormalization(items),
      statuses |-> countValues(items, Each(LAMBDA item : <<item.status>>)),
      categories |-> countValues(items, Each(LAMBDA item : <<item.category>>)),
      tags |-> countValues(items, Each(LAMBDA item : item.tags)),
      waves |-> countValues(items, Each(LAMBDA item : <<item.wave>>)),
      months |-> sortMonthsDesc(items, Each(LAMBDA item : <<item.availabilityDate>>)),
      availabilityTypes |-> countValues(items, Each(LAMBDA item : item.availabilityTypes)),
      enabledFor |-> countValues(items, Each(LAMBDA item : <<item.enabledFor>>)),
      geography |-> countValues(items, Each(ItemGeography)),
      language |-> countValues(items, Each(LAMBDA item : <<item.language>>))]

OptionValues(options) == [i \in 1..Len(options) |-> options[i].value]

----------------------------------------------------------------------------
(* Capability table (services/FilterDefinitions)                           *)

FILTER_CAPABILITIES ==
  [microsoft |-> {"status", "wave", "categories", "geography", "enabledFor",
                  "availabilityType", "releaseDateRange", "periodNewDays",
                  "periodChangedDays", "releaseInDays", "productOrApp", "months",
                  "tags", "language", "query", "sortOrder", "historyMonths",
                  "horizonMonths"},
   eos |-> {"status", "categories", "geography", "releaseDateRange", "periodNewDays",
            "periodChangedDays", "releaseInDays", "bcMinVersion", "productOrApp",
            "months", "tags", "language", "query", "sortOrder", "historyMonths",
            "horizonMonths"}]

toSourceKey(source) == IF source = "Microsoft" THEN "microsoft" ELSE "eos"

isFilterSupported(source, key) == key \in FILTER_CAPABILITIES[toSourceKey(source)]

resolveActiveSources(sources) ==
  IF Len(sources) = 0 THEN ALL_RELEASE_SOURCES ELSE sources

----------------------------------------------------------------------------
(* Selection normalizer (services/FilterNormalization)                     *)

\* the object spread { ...a, ...b }
Spread(a, b) ==
  [k \in DOMAIN a \cup DOMAIN b |-> IF k \in DOMAIN b THEN b[k] ELSE a[k]]

\* map.get(key), NULL for undefined
MapGet(map, key) == IF key \in DOMAIN map THEN map[key] ELSE NULL

\* normalizeSelection keeping a selection whose values are all invalid
normalizeSelectionKeepStale(values, options) ==
  IF Len(values) = 0 THEN <<>>
  ELSE IF Len(options) = 0 THEN <<>>
  ELSE values

normalizeSelection(values, options) ==
  IF Len(values) = 0 THEN <<>>
  ELSE IF Len(options) = 0 THEN <<>>
  ELSE LET valid == SelectSeq(values, LAMBDA value : Includes(options, value))
       IN IF Len(valid) > 0 THEN valid ELSE options

\* optionValuesForSources without the source filter
optionValuesForSourcesAll(options, sources, matchAllSources) ==
  IF Len(options) = 0 \/ Len(sources) = 0 THEN <<>>
  ELSE OptionValues(options)

optionValuesForSources(options, sources, matchAllSources) ==
  IF Len(options) = 0 \/ Len(sources) = 0 THEN <<>>
  ELSE OptionValues(SelectSeq(options, LAMBDA option :
         IF matchAllSources
         THEN \A i \in 1..Len(sources) : sources[i] \in option.sources
         ELSE \E source \in option.sources : Includes(sources, source)))

normalizeSelectionForSources(values, options, sources, matchAllSources) ==
  normalizeSelection(values, optionValuesForSources(options, sources, matchAllSources))

createDefaultFilters(productOptions, sourceOptions, statusOptions, horizonMonths, historyMonths) ==
  [targetCustomerIds |-> <<>>, targetGroupIds |-> <<>>, targetCssOwners |-> <<>>,
   products |-> productOptions, sources |-> sourceOptions, statuses |-> statusOptions,
   categories |-> <<>>, tags |-> <<>>, waves |-> <<>>, months |-> <<>>,
   availabilityTypes |-> <<>>, enabledFor |-> <<>>, geography |-> <<>>,
   language |-> <<>>, periodNewDays |-> 0, periodChangedDays |-> 0,
   releaseInDays |-> 0, minBcVersionMin |-> NONE, releaseDateFrom |-> NoDate,
   releaseDateTo |-> NoDate, sortOrder |-> "newest", query |-> <<>>,
   horizonMonths |-> horizonMonths, historyMonths |-> historyMonths]

buildNormalizationContext(items, metadata, sourceOptions) ==
  LET Name(i) == normalizeProductLabel(items[i].productName)
      named == {i \in Indices(items) : Name(i) # <<>>}
      names == {Name(i) : i \in named}
      first(n) == CHOOSE i \in named : Name(i) = n /\ \A j \in named : Name(j) = n => i <= j
      ofSource(source) == SelectSeq([i \in Indices(items) |-> i],
                                    LAMBDA i : i \in named /\ items[i].source = source)
      used == {items[i].source : i \in named}
  IN [sourceOptions |-> sourceOptions,
      metadata |-> metadata,
      productSourceMap |-> [n \in names |-> items[first(n)].source],
      productsBySource |->
        [source \in used |->
           Dedupe([k \in 1..Len(ofSource(source)) |-> Name(ofSource(source)[k])])]]

\* ExpandProducts with the products pushed onto an array instead of added to a Set
RECURSIVE ExpandProductsPush(_, _, _, _)
ExpandProductsPush(expanded, productSelection, sources, context) ==
  IF sources = <<>> THEN expanded
  ELSE LET source == Head(sources)
           hasProduct == \E i \in 1..Len(productSelection) :
                           MapGet(context.productSourceMap, productSelection[i]) = source
           added == IF hasProduct THEN expanded
                    ELSE expanded \o (IF source \in DOMAIN context.productsBySource
                                      THEN context.productsBySource[source]
                                      ELSE <<>>)
       IN ExpandProductsPush(added, productSelection, Tail(sources), context)

\* ExpandProducts with the coverage expansion left out
ExpandProductsNone(expanded, productSelection, sources, context) == expanded

\* the forEach over the resolved sources that adds, for a source none of whose
\* products is selected, every product of that source
RECURSIVE ExpandProducts(_, _, _, _)
ExpandProducts(expanded, productSelection, sources, context) ==
  IF sources = <<>> THEN expanded
  ELSE LET source == Head(sources)
           hasProduct == \E i \in 1..Len(productSelection) :
                           MapGet(context.productSourceMap, productSelection[i]) = source
           added == IF hasProduct THEN expanded
                    ELSE AddAll(expanded, IF source \in DOMAIN context.productsBySource
                                          THEN context.productsBySource[source]
                                          ELSE <<>>)
       IN ExpandProducts(added, productSelection, Tail(sources), context)

SourcedDimensions ==
  {"statuses", "categories", "tags", "waves", "months", "availabilityTypes",
   "enabledFor", "geography", "language"}

\* ContextNotReady with the guard never taken
ContextNotReadyNever(context) == FALSE

\* the SKIP_NOT_READY guard
ContextNotReady(context) ==
  Len(context.sourceOptions) = 0 \/ Len(context.metadata.products) = 0

normalizeFilters(raw, defaults, context) ==
  IF IsNullFilters(raw) THEN defaults
  ELSE
    LET merged == Spread(defaults, raw)
        matchAllSources == FALSE
    IN IF ContextNotReady(context)
       THEN merged
       ELSE
         LET sources == normalizeSelection(merged.sources, context.sourceOptions)
             productSelection ==
               normalizeSelectionForSources(merged.products, context.metadata.products,
                                            sources, matchAllSources)
             expandedProducts ==
               ExpandProducts(Dedupe(productSelection), productSelection, sources, context)
         IN Spread(merged,
              [k \in SourcedDimensions \cup {"products", "sources"} |->
                 CASE k = "products" -> expandedProducts
                   [] k = "sources" -> sources
                   [] OTHER -> normalizeSelectionForSources(
                                 merged[k], context.metadata[k], sources, matchAllSources)])

\* selectEffectiveFilters returning a stored override whatever the mode
selectEffectiveFiltersAnyMode(activeCustomerId, cssFilters, customerFilters, customerFilterMode, defaultFilters, normContext) ==
  IF activeCustomerId = NULL \/ activeCustomerId \notin DOMAIN customerFilters
    THEN normalizeFilters(cssFilters, defaultFilters, normContext)
    ELSE normalizeFilters(customerFilters[activeCustomerId], defaultFilters, normContext)

selectEffectiveFilters(activeCustomerId, cssFilters, customerFilters, customerFilterMode, defaultFilters, normContext) ==
  LET normalizedGlobal == normalizeFilters(cssFilters, defaultFilters, normContext)
      mode == IF activeCustomerId \in DOMAIN customerFilterMode
              THEN customerFilterMode[activeCustomerId] ELSE "inherit"
  IN IF activeCustomerId = NULL THEN normalizedGlobal
     ELSE IF mode = "inherit" THEN normalizedGlobal
     ELSE IF activeCustomerId \notin DOMAIN customerFilters THEN normalizedGlobal
     ELSE normalizeFilters(customerFilters[activeCustomerId], defaultFilters, normContext)

\* stripTargetingFields that keeps the CSS owners
stripTargetingFieldsKeepOwners(filters) ==
  Spread(filters, [targetCustomerIds |-> <<>>, targetGroupIds |-> <<>>])

stripTargetingFields(filters) ==
  Spread(filters,
         [targetCustomerIds |-> <<>>, targetGroupIds |-> <<>>, targetCssOwners |-> <<>>])

----------------------------------------------------------------------------
(* Item filter / predicate engine (services/FilterService)                 *)

\* haystack.includes(needle)
Contains(haystack, needle) ==
  \E i \in 0..(Len(haystack) - Len(needle)) :
    \A j \in 1..Len(needle) : haystack[i + j] = needle[j]

\* some element of `selection` is in `values`
Intersects(selection, values) ==
  \E i \in 1..Len(selection) : Includes(values, selection[i])

withinLastDays(date, days, now) ==
  IF date = NONE THEN FALSE
  ELSE LET cutoff == now - days * TicksPerDay
       IN date >= cutoff /\ date <= now

\* the productSourceMap filterReleaseItems builds: normalized name -> source of the
\* first item that carries it (the empty name included)
FilterProductSourceMap(items) ==
  LET Name(i) == normalizeProductLabel(items[i].productName)
      names == {Name(i) : i \in Indices(items)}
      first(n) == CHOOSE i \in Indices(items) :
                    Name(i) = n /\ \A j \in Indices(items) : Name(j) = n => i <= j
  IN [n \in names |-> items[first(n)].source]

PassesSources(item, filters) ==
  Len(filters.sources) > 0 => Includes(filters.sources, item.source)

PassesStatuses(item, filters) ==
  (isFilterSupported(item.source, "status") /\ Len(filters.statuses) > 0)
    => Includes(filters.statuses, item.status)

\* PassesProducts without the test for a selected product of the item's source
PassesProductsAnySource(item, filters, productSourceMap) ==
  (isFilterSupported(item.source, "productOrApp") /\ Len(filters.products) > 0)
    => Includes(filters.products, normalizeProductLabel(item.productName))

\* PassesProducts comparing the raw productName, as the older FilterService does
PassesProductsRaw(item, filters, productSourceMap) ==
  (isFilterSupported(item.source, "productOrApp") /\ Len(filters.products) > 0)
    => LET hasProductForSource ==
             \E i \in 1..Len(filters.products) :
               MapGet(productSourceMap, filters.products[i]) = item.source
       IN hasProductForSource => Includes(filters.products, item.productName)

PassesProducts(item, filters, productSourceMap) ==
  (isFilterSupported(item.source, "productOrApp") /\ Len(filters.products) > 0)
    => LET normalizedItemProduct == normalizeProductLabel(item.productName)
           hasProductForSource ==
             \E i \in 1..Len(filters.products) :
               MapGet(productSourceMap, filters.products[i]) = item.source
       IN hasProductForSource => Includes(filters.products, normalizedItemProduct)

\* PassesHorizon applied only to sources with release waves
PassesHorizonGated(item, filters, now) ==
  LET itemDate == toMonthDate(item.availabilityDate)
      horizon == addMonths(now, filters.horizonMonths)
  IN isFilterSupported(item.source, "wave") => ~(itemDate # NONE /\ itemDate > horizon)

PassesHorizon(item, filters, now) ==
  LET itemDate == toMonthDate(item.availabilityDate)
      horizon == addMonths(now, filters.horizonMonths)
  IN ~(itemDate # NONE /\ itemDate > horizon)

PassesHistory(item, filters, now) ==
  LET itemDate == toMonthDate(item.availabilityDate)
      historyLimit == addMonths(now, 0 - filters.historyMonths)
  IN ~(itemDate # NONE /\ itemDate < historyLimit)

PassesCategories(item, filters) ==
  (isFilterSupported(item.source, "categories") /\ Len(filters.categories) > 0)
    => (item.category # "" /\ Includes(filters.categories, item.category))

\* PassesWaves without the capability gate
PassesWavesUngated(item, filters) ==
  Len(filters.waves) > 0 => (item.wave # "" /\ Includes(filters.waves, item.wave))

PassesWaves(item, filters) ==
  (isFilterSupported(item.source, "wave") /\ Len(filters.waves) > 0)
    => (item.wave # "" /\ Includes(filters.waves, item.wave))

PassesAvailabilityTypes(item, filters) ==
  (isFilterSupported(item.source, "availabilityType") /\ Len(filters.availabilityTypes) > 0)
    => Intersects(filters.availabilityTypes, item.availabilityTypes)

PassesEnabledFor(item, filters) ==
  (isFilterSupported(item.source, "enabledFor") /\ Len(filters.enabledFor) > 0)
    => (item.enabledFor # "" /\ Includes(filters.enabledFor, item.enabledFor))

PassesGeography(item, filters) ==
  (isFilterSupported(item.source, "geography") /\ Len(filters.geography) > 0)
    => Intersects(filters.geography, ItemGeography(item))

PassesLanguage(item, filters) ==
  (isFilterSupported(item.source, "language") /\ Len(filters.language) > 0)
    => (item.language # "" /\ Includes(filters.language, item.language))

\* PassesBcMinVersion excluding a version equal to the floor
PassesBcMinVersionStrict(item, filters) ==
  (isFilterSupported(item.source, "bcMinVersion") /\ filters.minBcVersionMin # NONE)
    => ~(item.minBcVersion # NONE /\ item.minBcVersion <= filters.minBcVersionMin)

PassesBcMinVersion(item, filters) ==
  (isFilterSupported(item.source, "bcMinVersion") /\ filters.minBcVersionMin # NONE)
    => ~(item.minBcVersion # NONE /\ item.minBcVersion < filters.minBcVersionMin)

PassesTags(item, filters) ==
  (isFilterSupported(item.source, "tags") /\ Len(filters.tags) > 0)
    => Intersects(filters.tags, item.tags)

PassesMonths(item, filters) ==
  (isFilterSupported(item.source, "months") /\ Len(filters.months) > 0)
    => Includes(filters.months, item.availabilityDate)

PassesPeriodNewDays(item, filters, now) ==
  (isFilterSupported(item.source, "periodNewDays") /\ filters.periodNewDays > 0)
    => withinLastDays(parseDateAny(item.releaseDate), filters.periodNewDays, now)

\* PassesPeriodChangedDays that never falls back to the release date
PassesPeriodChangedDaysNoFallback(item, filters, now) ==
  (isFilterSupported(item.source, "periodChangedDays") /\ filters.periodChangedDays > 0)
    => withinLastDays(parseDateAny(item.lastUpdatedDate), filters.periodChangedDays, now)

PassesPeriodChangedDays(item, filters, now) ==
  (isFilterSupported(item.source, "periodChangedDays") /\ filters.periodChangedDays > 0)
    => LET lastUpdated == parseDateAny(item.lastUpdatedDate)
           updated == IF lastUpdated # NONE THEN lastUpdated
                      ELSE parseDateAny(item.releaseDate)
       IN withinLastDays(updated, filters.periodChangedDays, now)

PassesReleaseInDays(item, filters, now) ==
  (isFilterSupported(item.source, "releaseInDays") /\ filters.releaseInDays > 0)
    => LET releaseDate == parseDateAny(item.releaseDate)
           limit == now + filters.releaseInDays * TicksPerDay
       IN releaseDate # NONE /\ ~(releaseDate < now \/ releaseDate > limit)

PassesReleaseDateRange(item, filters) ==
  LET releaseDateFrom == parseDateAny(filters.releaseDateFrom)
      releaseDateTo == parseDateAny(filters.releaseDateTo)
      releaseDate == parseDateAny(item.releaseDate)
  IN /\ (isFilterSupported(item.source, "releaseDateRange") /\ releaseDateFrom # NONE)
          => (releaseDate # NONE /\ releaseDate >= releaseDateFrom)
     /\ (isFilterSupported(item.source, "releaseDateRange") /\ releaseDateTo # NONE)
          => (releaseDate # NONE /\ releaseDate <= releaseDateTo)

PassesQuery(item, filters) ==
  LET query == ToLower(Trim(filters.query))
      haystack == ToLower(item.title \o <<" ">> \o item.description \o <<" ">>
                          \o item.productName)
  IN (isFilterSupported(item.source, "query") /\ query # <<>>)
       => Contains(haystack, query)

\* one item against every predicate of filterReleaseItems, in the code's order
PassesFilters(item, filters, productSourceMap, now) ==
  /\ PassesSources(item, filters)
  /\ PassesStatuses(item, filters)
  /\ PassesProducts(item, filters, productSourceMap)
  /\ PassesHorizon(item, filters, now)
  /\ PassesHistory(item, filters, now)
  /\ PassesCategories(item, filters)
  /\ PassesWaves(item, filters)
  /\ PassesAvailabilityTypes(item, filters)
  /\ PassesEnabledFor(item, filters)
  /\ PassesGeography(item, filters)
  /\ PassesLanguage(item, filters)
  /\ PassesBcMinVersion(item, filters)
  /\ PassesTags(item, filters)
  /\ PassesMonths(item, filters)
  /\ PassesPeriodNewDays(item, filters, now)
  /\ PassesPeriodChangedDays(item, filters, now)
  /\ PassesReleaseInDays(item, filters, now)
  /\ PassesReleaseDateRange(item, filters)
  /\ PassesQuery(item, filters)

filterReleaseItems(items, filters, now) ==
  LET productSourceMap == FilterProductSourceMap(items)
  IN SelectSeq(items, LAMBDA item : PassesFilters(item, filters, productSourceMap, now))

----------------------------------------------------------------------------
(* Inputs: a catalogue of release items, the collections a snapshot may    *)
(* hold, and the stored filter sets                                        *)

MaxItems == 3
MaxEdits == 1

LabelA == <<"A">>
LabelB == <<"B">>
LabelC == <<"C">>
LabelOld == <<"B", "a">>

Ms1 ==
  [BlankItem EXCEPT !.id = "ms-1", !.productName = <<"a">>, !.category = "Cat A",
     !.tags = <<"tag1">>, !.wave = "Wave 1", !.availabilityTypes = <<"GA">>,
     !.enabledFor = "Admins", !.geographyCountries = <<"Italy">>, !.language = "en",
     !.availabilityDate = Ym(10), !.releaseDate = Ymd(29), !.lastUpdatedDate = Ymd(30),
     !.title = <<"a", "b">>, !.minBcVersion = 20]

Ms2 ==
  [BlankItem EXCEPT !.id = "ms-2", !.productName = <<"[", "b", "]", "(", "a", ")">>,
     !.status = "Launched", !.tags = <<"tag1", "tag2">>, !.wave = "Wave 2",
     !.availabilityTypes = <<"Preview">>, !.enabledFor = "Users",
     !.geography = <<"Germany", "Germany">>, !.availabilityDate = Ym(11), !.releaseDate = Ym(11),
     !.title = <<"B">>, !.description = <<"c", " ", "a">>]

Eos1 ==
  [BlankItem EXCEPT !.id = "eos-1", !.source = "EOS", !.productName = <<"A">>,
     !.category = "Cat B", !.tags = <<"tag2">>, !.geographyCountries = <<"Italy">>,
     !.language = "it", !.availabilityDate = Ym(10), !.releaseDate = Ymd(31),
     !.title = <<"c">>, !.minBcVersion = 21]

Eos2 ==
  [BlankItem EXCEPT !.id = "eos-2", !.source = "EOS", !.productName = <<" ", "c", " ">>,
     !.status = "Launched", !.wave = "Wave 2", !.availabilityTypes = <<"GA">>,
     !.enabledFor = "Admins", !.availabilityDate = BadDate, !.releaseDate = BadDate,
     !.lastUpdatedDate = Ymd(28), !.minBcVersion = 22]

Eos3 ==
  [BlankItem EXCEPT !.id = "eos-3", !.source = "EOS", !.availabilityDate = Ym(12),
     !.category = "Cat A"]

FullCollections ==
  {<<Ms1, Eos1, Eos2, Ms2>>,
   <<Eos1, Ms1, Eos3, Ms2>>,
   <<Eos3, Eos2, Ms2, Ms1>>,
   <<Ms2, Ms1, Ms2, Ms1>>}

Collections ==
  {SubSeq(c, 1, n) : c \in FullCollections, n \in 0..MaxItems}
    \cup {c \in FullCollections : Len(c) <= MaxItems}

\* rulesConfig.defaults (data/rules.json, read through RulesConfigSchema)
RulesDefaults ==
  [sources |-> ALL_RELEASE_SOURCES, statuses |-> <<"Planned", "Launched">>,
   horizonMonths |-> 3, historyMonths |-> 3]

\* sourceOptions / statusOptions / productOptions / defaultFilters of the pages
PageSourceOptions(metadata) ==
  IF Len(metadata.sources) > 0 THEN OptionValues(metadata.sources)
  ELSE RulesDefaults.sources

PageStatusOptions(metadata) ==
  IF Len(metadata.statuses) > 0 THEN OptionValues(metadata.statuses)
  ELSE RulesDefaults.statuses

PageDefaultFilters(metadata) ==
  createDefaultFilters(OptionValues(metadata.products), PageSourceOptions(metadata),
                       PageStatusOptions(metadata), RulesDefaults.horizonMonths,
                       RulesDefaults.historyMonths)

\* the filter set of the repository's own tests (baseFilters)
baseFilters(sources) ==
  createDefaultFilters(<<>>, sources, <<>>, 3, 3)

\* defaults stored while an older snapshot was loaded
StaleDefaults ==
  createDefaultFilters(<<LabelA, LabelOld>>, ALL_RELEASE_SOURCES, <<"Planned", "Stale">>,
                       3, 3)

\* a payload stored before the language and waves fields existed
PartialFilters ==
  [k \in DOMAIN StaleDefaults \ {"language", "waves"} |-> StaleDefaults[k]]

BaseFilterSets == {baseFilters(ALL_RELEASE_SOURCES), StaleDefaults, PartialFilters}

\* one change of one field, as a page's updateFilters({field: value}) makes it
FieldChanges ==
  {<<"sources", <<>>>>, <<"sources", <<"EOS">>>>, <<"sources", <<"Microsoft">>>>,
   <<"sources", <<"Stale">>>>,
   <<"products", <<>>>>, <<"products", <<LabelA>>>>, <<"products", <<LabelC>>>>,
   <<"products", <<LabelOld>>>>, <<"products", <<LabelB, LabelA>>>>,
   <<"statuses", <<"Launched">>>>, <<"statuses", <<"Stale">>>>,
   <<"categories", <<"Cat A">>>>, <<"categories", <<"Stale">>>>,
   <<"tags", <<"tag1">>>>, <<"tags", <<"Stale", "tag2">>>>,
   <<"waves", <<"Wave 1">>>>, <<"waves", <<"Wave 2">>>>, <<"waves", <<"Stale">>>>,
   <<"months", <<Ym(10)>>>>, <<"months", <<Ym(99)>>>>,
   <<"availabilityTypes", <<"GA">>>>, <<"availabilityTypes", <<"Stale">>>>,
   <<"enabledFor", <<"Users">>>>, <<"enabledFor", <<"Stale">>>>,
   <<"geography", <<"Italy">>>>, <<"geography", <<"Stale">>>>,
   <<"language", <<"en">>>>, <<"language", <<"Stale">>>>,
   <<"periodNewDays", 2>>, <<"periodChangedDays", 2>>, <<"releaseInDays", 2>>,
   <<"minBcVersionMin", 21>>, <<"minBcVersionMin", 22>>,
   <<"releaseDateFrom", Ymd(30)>>, <<"releaseDateTo", Ymd(30)>>,
   <<"query", <<"a">>>>, <<"query", <<" ", "C", " ">>>>,
   <<"horizonMonths", 1>>, <<"historyMonths", 0>>,
   <<"sortOrder", "oldest">>,
   <<"targetCustomerIds", <<"c1">>>>, <<"targetGroupIds", <<"g1">>>>,
   <<"targetCssOwners", <<"o1">>>>}

\* { ...filters, [field]: value }
WithField(filters, change) == Spread(filters, [k \in {change[1]} |-> change[2]])

RECURSIVE EditedFilterSets(_)
EditedFilterSets(n) ==
  IF n = 0 THEN BaseFilterSets
  ELSE LET less == EditedFilterSets(n - 1)
       IN less \cup {WithField(f, c) : f \in less, c \in FieldChanges}

RawFilterSets == EditedFilterSets(MaxEdits) \cup {NullFilters}

\* the instant the filter runs: noon of day 30, in month 10
Now == 30 * TicksPerDay + 1

----------------------------------------------------------------------------
(* State                                                                   *)

VARIABLES
  items,              \* the loaded item collection (snapshotItems)
  metadata,           \* useMemo: buildFilterMetadata(items)
  normContext,        \* useMemo: buildNormalizationContext(items, metadata, sourceOptions)
  defaultFilters,     \* useMemo: createDefaultFilters(...)
  raw,                \* the stored filter set handed to normalizeFilters
  pc,                 \* how far the normalize-then-filter pass has got
  normalized,         \* normalizeFilters(raw, defaults, context)
  renormalized,       \* normalizeFilters(normalized, defaults, context)
  visibleRaw,         \* filterReleaseItems under { ...defaults, ...raw }
  visible,            \* filterReleaseItems under the normalized filter set
  exported,           \* the lines of buildMarkdown(items, customerName)
  cssFilters,         \* useFilterStore: the global filters, NullFilters for null
  customerFilters,    \* useFilterStore: customer id -> stored override
  customerFilterMode, \* useFilterStore: customer id -> "inherit" | "custom"
  filterStorage,      \* localStorage under CSS_KEY, CUSTOM_KEY, MODE_KEY
  index,              \* useCustomerStore: the customer index entries, in order
  customers,          \* useCustomerStore: customer id -> customer
  activeCustomerId,   \* useCustomerStore: the active customer, NULL for null
  customerStorage,    \* localStorage under INDEX_KEY and CUSTOMER_KEY_PREFIX + id
  effective,          \* the last result of selectEffectiveFilters, NullFilters once stale
  lastOp,             \* the operation that made the last step, with its customer id
  rawLabel,           \* a raw product label handed to normalizeProductLabel
  labelPc,            \* how often the label has been normalized: "raw", "once", "twice"
  canonical,          \* normalizeProductLabel(rawLabel)
  recanonical,        \* normalizeProductLabel(canonical)
  groups,             \* useCustomerGroupStore: the customer groups, in order
  groupStorage,       \* localStorage under the group store's STORAGE_KEY
  selected,           \* FilterSourceToggle: the `selected` prop
  emitted             \* FilterSourceToggle: the last list handed to onChange

snapshotVars == <<items, metadata, normContext, defaultFilters>>
pipeVars == <<raw, pc, normalized, renormalized, visibleRaw, visible, exported>>
filterStoreVars == <<cssFilters, customerFilters, customerFilterMode, filterStorage>>
customerStoreVars == <<index, customers, activeCustomerId, customerStorage>>
storeVars == <<filterStoreVars, customerStoreVars, effective, lastOp>>

labelVars == <<rawLabel, labelPc, canonical, recanonical>>

groupVars == <<groups, groupStorage>>
toggleVars == <<selected, emitted>>
pageVars == <<groupVars, toggleVars>>

vars == <<snapshotVars, pipeVars, storeVars, labelVars, pageVars>>

\* the page's memoized values for a loaded collection
Derived(collection) ==
  /\ metadata = buildFilterMetadata(collection)
  /\ normContext = buildNormalizationContext(collection, metadata,
                                             PageSourceOptions(metadata))
  /\ defaultFilters = PageDefaultFilters(metadata)

\* { ...defaults, ...raw }, the defaults when nothing is stored
Merged(filters) == IF IsNullFilters(filters) THEN defaultFilters
                   ELSE Spread(defaultFilters, filters)

\* an object with no key
EmptyMap == [k \in {} |-> NULL]

\* { ...map, [key]: value }
Put(map, key, value) ==
  [k \in DOMAIN map \cup {key} |-> IF k = key THEN value ELSE map[k]]

\* delete map[key]
Delete(map, key) == [k \in DOMAIN map \ {key} |-> map[k]]

\* both stores as their modules leave them over an empty localStorage and an empty
\* customer seed
StoresEmpty ==
  /\ cssFilters = NullFilters
  /\ customerFilters = EmptyMap
  /\ customerFilterMode = EmptyMap
  /\ filterStorage = [css |-> NullFilters, custom |-> EmptyMap, mode |-> EmptyMap]
  /\ index = <<>>
  /\ customers = EmptyMap
  /\ activeCustomerId = NULL
  /\ customerStorage = [index |-> <<>>, customer |-> EmptyMap]
  /\ effective = NullFilters
  /\ lastOp = [op |-> "create", id |-> NULL]

\* no label is being normalized
LabelsIdle ==
  /\ rawLabel = <<>>
  /\ labelPc = "raw"
  /\ canonical = <<>>
  /\ recanonical = <<>>

\* no group exists and no source toggle is mounted
PagesIdle ==
  /\ groups = <<>>
  /\ groupStorage = <<>>
  /\ selected = <<>>
  /\ emitted = <<>>

----------------------------------------------------------------------------
(* The normalize-then-filter pass over one snapshot and one stored set     *)

PipeInit ==
  /\ items \in Collections
  /\ Derived(items)
  /\ raw \in RawFilterSets
  /\ pc = "input"
  /\ normalized = NullFilters
  /\ renormalized = NullFilters
  /\ visibleRaw = <<>>
  /\ visible = <<>>
  /\ exported = <<>>
  /\ StoresEmpty
  /\ LabelsIdle
  /\ PagesIdle

Normalize ==
  /\ pc = "input"
  /\ normalized' = normalizeFilters(raw, defaultFilters, normContext)
  /\ pc' = "normalized"
  /\ UNCHANGED <<snapshotVars, raw, renormalized, visibleRaw, visible, exported, storeVars, labelVars, pageVars>>

Renormalize ==
  /\ pc = "normalized"
  /\ renormalized' = normalizeFilters(normalized, defaultFilters, normContext)
  /\ pc' = "renormalized"
  /\ UNCHANGED <<snapshotVars, raw, normalized, visibleRaw, visible, exported, storeVars, labelVars, pageVars>>

Filter ==
  /\ pc = "renormalized"
  /\ visibleRaw' = filterReleaseItems(items, Merged(raw), Now)
  /\ visible' = filterReleaseItems(items, normalized, Now)
  /\ pc' = "filtered"
  /\ UNCHANGED <<snapshotVars, raw, normalized, renormalized, exported, storeVars, labelVars, pageVars>>

PipeNext == Normalize \/ Renormalize \/ Filter

SpecPipeline == PipeInit /\ [][PipeNext]_vars

----------------------------------------------------------------------------
(* The filter store (store/useFilterStore)                                 *)

\* the store's state as one object: get()
FilterStore ==
  [cssFilters |-> cssFilters, customerFilters |-> customerFilters,
   customerFilterMode |-> customerFilterMode, localStorage |-> filterStorage]

\* persist without the setItem under MODE_KEY
persistWithoutMode(localStorage, css, custom, mode) ==
  [css |-> IF IsNullFilters(css) THEN localStorage.css ELSE css,
   custom |-> custom, mode |-> localStorage.mode]

\* the three keys after persist(cssFilters, customerFilters, customerFilterMode)
persist(localStorage, css, custom, mode) ==
  [css |-> IF IsNullFilters(css) THEN localStorage.css ELSE css,
   custom |-> custom, mode |-> mode]

setCssFilters(store, filters) ==
  [store EXCEPT
     !.localStorage = persist(@, filters, store.customerFilters,
                              store.customerFilterMode),
     !.cssFilters = filters]

\* setCustomerFilters without the spread of the overrides already stored
setCustomerFiltersAlone(store, customerId, filters) ==
  LET next == Put(EmptyMap, customerId, filters)
  IN [store EXCEPT
        !.localStorage = persist(@, store.cssFilters, next, store.customerFilterMode),
        !.customerFilters = next]

setCustomerFilters(store, customerId, filters) ==
  LET next == Put(store.customerFilters, customerId, filters)
  IN [store EXCEPT
        !.localStorage = persist(@, store.cssFilters, next, store.customerFilterMode),
        !.customerFilters = next]

setCustomerMode(store, customerId, mode) ==
  LET next == Put(store.customerFilterMode, customerId, mode)
  IN [store EXCEPT
        !.localStorage = persist(@, store.cssFilters, store.customerFilters, next),
        !.customerFilterMode = next]

ensureCssFilters(store, defaults) ==
  IF IsNullFilters(store.cssFilters)
    THEN [store EXCEPT
            !.localStorage = persist(@, defaults, store.customerFilters,
                                     store.customerFilterMode),
            !.cssFilters = defaults]
    ELSE store

resetCustomerFilters(store, customerId) ==
  LET nextFilters == Delete(store.customerFilters, customerId)
      nextModes == Delete(store.customerFilterMode, customerId)
  IN [store EXCEPT
        !.localStorage = persist(@, store.cssFilters, nextFilters, nextModes),
        !.customerFilters = nextFilters,
        !.customerFilterMode = nextModes]

resetAllFilters(store, defaults) ==
  [store EXCEPT
     !.localStorage = persist(@, defaults, EmptyMap, EmptyMap),
     !.cssFilters = defaults,
     !.customerFilters = EmptyMap,
     !.customerFilterMode = EmptyMap]

\* removeGroupFromFilters: stripGroup
stripGroup(filters, groupId) ==
  [filters EXCEPT !.targetGroupIds = SelectSeq(@, LAMBDA id : id # groupId)]

\* removeGroupFromFilters that strips the group from the global filters only
removeGroupFromGlobal(store, groupId) ==
  LET nextCss == IF IsNullFilters(store.cssFilters) THEN store.cssFilters
                 ELSE stripGroup(store.cssFilters, groupId)
  IN [store EXCEPT
        !.localStorage = persist(@, nextCss, store.customerFilters,
                                 store.customerFilterMode),
        !.cssFilters = nextCss]

removeGroupFromFilters(store, groupId) ==
  LET nextCss == IF IsNullFilters(store.cssFilters) THEN store.cssFilters
                 ELSE stripGroup(store.cssFilters, groupId)
      nextCustomerFilters ==
        [key \in DOMAIN store.customerFilters |->
           stripGroup(store.customerFilters[key], groupId)]
  IN [store EXCEPT
        !.localStorage = persist(@, nextCss, nextCustomerFilters,
                                 store.customerFilterMode),
        !.cssFilters = nextCss,
        !.customerFilters = nextCustomerFilters]

\* applyGlobalToCustomers that stores a reference to the global filters: the customers
\* are put back to inherit
applyGlobalByReference(store, customerIds, globalFilters) ==
  LET named == Range(customerIds)
      nextFilters == [k \in DOMAIN store.customerFilters \ named |->
                        store.customerFilters[k]]
      nextMode == [k \in DOMAIN store.customerFilterMode \cup named |->
                     IF k \in named THEN "inherit" ELSE store.customerFilterMode[k]]
  IN [store EXCEPT
        !.localStorage = persist(@, store.cssFilters, nextFilters, nextMode),
        !.customerFilters = nextFilters,
        !.customerFilterMode = nextMode]

applyGlobalToCustomers(store, customerIds, globalFilters) ==
  LET named == Range(customerIds)
      nextFilters == [k \in DOMAIN store.customerFilters \cup named |->
                        IF k \in named THEN globalFilters ELSE store.customerFilters[k]]
      nextMode == [k \in DOMAIN store.customerFilterMode \cup named |->
                     IF k \in named THEN "custom" ELSE store.customerFilterMode[k]]
  IN [store EXCEPT
        !.localStorage = persist(@, store.cssFilters, nextFilters, nextMode),
        !.customerFilters = nextFilters,
        !.customerFilterMode = nextMode]

\* clearOverridesForCustomers that keeps the key and sets the mode to inherit
clearOverridesKeepingMode(store, customerIds) ==
  LET named == Range(customerIds)
      nextFilters == [k \in DOMAIN store.customerFilters \ named |->
                        store.customerFilters[k]]
      nextMode == [k \in DOMAIN store.customerFilterMode |->
                     IF k \in named THEN "inherit" ELSE store.customerFilterMode[k]]
  IN [store EXCEPT
        !.localStorage = persist(@, store.cssFilters, nextFilters, nextMode),
        !.customerFilters = nextFilters,
        !.customerFilterMode = nextMode]

clearOverridesForCustomers(store, customerIds) ==
  LET named == Range(customerIds)
      nextFilters == [k \in DOMAIN store.customerFilters \ named |->
                        store.customerFilters[k]]
      nextMode == [k \in DOMAIN store.customerFilterMode \ named |->
                     store.customerFilterMode[k]]
  IN [store EXCEPT
        !.localStorage = persist(@, store.cssFilters, nextFilters, nextMode),
        !.customerFilters = nextFilters,
        !.customerFilterMode = nextMode]

\* what the three setItem calls of persist leave under the three keys: the JSON text
\* of each value, and no entry under CSS_KEY while no global filters were stored
StoredText(localStorage) ==
  [css |-> IF IsNullFilters(localStorage.css) THEN [kind |-> "absent"]
           ELSE [kind |-> "json", value |-> localStorage.css],
   custom |-> [kind |-> "json", value |-> localStorage.custom],
   mode |-> [kind |-> "json", value |-> localStorage.mode]]

\* set(...) of the filter store
CommitFilterStore(store) ==
  /\ cssFilters' = store.cssFilters
  /\ customerFilters' = store.customerFilters
  /\ customerFilterMode' = store.customerFilterMode
  /\ filterStorage' = store.localStorage

----------------------------------------------------------------------------
(* The customer store (store/useCustomerStore, services/CustomerStorage)   *)

\* a customer as the model carries it: the fields the index entry is made of
Customer(id, ownerCss, isActive) ==
  [id |-> id, name |-> id, ownerCss |-> ownerCss, isActive |-> isActive]

CustomerStore ==
  [index |-> index, customers |-> customers, activeCustomerId |-> activeCustomerId,
   localStorage |-> customerStorage]

isEntryActive(entry) == entry.isActive # FALSE

normalizeEntry(entry) == [entry EXCEPT !.isActive = (@ # FALSE)]

normalizeCustomer(customer) == [customer EXCEPT !.isActive = (@ # FALSE)]

toIndexEntry(customer) ==
  [id |-> customer.id, name |-> customer.name, ownerCss |-> customer.ownerCss,
   isActive |-> (customer.isActive # FALSE)]

\* entries.find(test): the first of the positions that pass, 0 for undefined
Find(hits) ==
  IF hits = {} THEN 0 ELSE CHOOSE i \in hits : \A j \in hits : i <= j

resolveActiveCustomerId(entries, currentId) ==
  LET current == Find({i \in 1..Len(entries) : entries[i].id = currentId})
      firstActive == Find({i \in 1..Len(entries) : isEntryActive(entries[i])})
  IN IF currentId # NULL /\ current # 0 /\ isEntryActive(entries[current])
       THEN currentId
       ELSE IF firstActive # 0 THEN entries[firstActive].id ELSE NULL

saveCustomer(localStorage, customer) ==
  [localStorage EXCEPT !.customer = Put(@, customer.id, customer)]

saveCustomerIndex(localStorage, entries) == [localStorage EXCEPT !.index = entries]

deleteCustomerStorage(localStorage, id) ==
  [localStorage EXCEPT !.customer = Delete(@, id)]

setActiveCustomer(store, id) ==
  [store EXCEPT
     !.activeCustomerId = IF id # NULL THEN resolveActiveCustomerId(store.index, id)
                          ELSE NULL]

addCustomer(store, customer) ==
  LET normalizedCustomer == normalizeCustomer(customer)
      nextIndex == Append(store.index, toIndexEntry(normalizedCustomer))
  IN [index |-> nextIndex,
      customers |-> Put(store.customers, customer.id, normalizedCustomer),
      activeCustomerId |->
        IF normalizedCustomer.isActive = FALSE
          THEN resolveActiveCustomerId(nextIndex, store.activeCustomerId)
          ELSE normalizedCustomer.id,
      localStorage |->
        saveCustomerIndex(saveCustomer(store.localStorage, normalizedCustomer),
                          nextIndex)]

updateCustomer(store, customer) ==
  LET normalizedCustomer == normalizeCustomer(customer)
      nextIndex == [i \in 1..Len(store.index) |->
                      IF store.index[i].id = normalizedCustomer.id
                        THEN toIndexEntry(normalizedCustomer)
                        ELSE store.index[i]]
  IN [index |-> nextIndex,
      customers |-> Put(store.customers, normalizedCustomer.id, normalizedCustomer),
      activeCustomerId |-> resolveActiveCustomerId(nextIndex, store.activeCustomerId),
      localStorage |->
        saveCustomerIndex(saveCustomer(store.localStorage, normalizedCustomer),
                          nextIndex)]

\* deleteCustomer that leaves the customer in the customers map
deleteCustomerFromIndex(store, id) ==
  LET nextIndex == SelectSeq(store.index, LAMBDA entry : entry.id # id)
  IN [index |-> nextIndex,
      customers |-> store.customers,
      activeCustomerId |-> resolveActiveCustomerId(nextIndex, store.activeCustomerId),
      localStorage |->
        saveCustomerIndex(deleteCustomerStorage(store.localStorage, id), nextIndex)]

deleteCustomer(store, id) ==
  LET nextIndex == SelectSeq(store.index, LAMBDA entry : entry.id # id)
  IN [index |-> nextIndex,
      customers |-> Delete(store.customers, id),
      activeCustomerId |-> resolveActiveCustomerId(nextIndex, store.activeCustomerId),
      localStorage |->
        saveCustomerIndex(deleteCustomerStorage(store.localStorage, id), nextIndex)]

\* forceOwnerCssFromSeed, seedOwnerMap being what loadSeedOwnerMap() returns
forceOwnerCssFromSeed(store, seedOwnerMap) ==
  IF DOMAIN seedOwnerMap = {} THEN store
  ELSE LET seeded(id) == id \in DOMAIN seedOwnerMap /\ seedOwnerMap[id] # ""
           nextIndex == [i \in 1..Len(store.index) |->
                           IF seeded(store.index[i].id)
                             THEN [store.index[i] EXCEPT
                                     !.ownerCss = seedOwnerMap[store.index[i].id]]
                             ELSE store.index[i]]
           nextCustomers == [id \in DOMAIN store.customers |->
                               IF seeded(id)
                                 THEN [store.customers[id] EXCEPT
                                         !.ownerCss = seedOwnerMap[id]]
                                 ELSE store.customers[id]]
           saved == [id \in DOMAIN store.localStorage.customer
                             \cup {k \in DOMAIN nextCustomers : seeded(k)} |->
                       IF id \in DOMAIN nextCustomers /\ seeded(id)
                         THEN nextCustomers[id]
                         ELSE store.localStorage.customer[id]]
       IN [store EXCEPT
             !.index = nextIndex,
             !.customers = nextCustomers,
             !.localStorage = [index |-> nextIndex, customer |-> saved]]

\* replaceAll that keeps the active customer id as it is
replaceAllKeepingActive(store, nextIndex, nextCustomers) ==
  LET normalizedIndex == [i \in 1..Len(nextIndex) |-> normalizeEntry(nextIndex[i])]
      normalizedCustomers == [id \in DOMAIN nextCustomers |->
                                normalizeCustomer(nextCustomers[id])]
      nextIds == {normalizedIndex[i].id : i \in 1..Len(normalizedIndex)}
      existing == {store.index[i].id : i \in 1..Len(store.index)}
      kept == DOMAIN store.localStorage.customer \ (existing \ nextIds)
      byId == {normalizedCustomers[k].id : k \in DOMAIN normalizedCustomers}
      saved == [id \in kept \cup byId |->
                  IF id \in byId
                    THEN normalizedCustomers[CHOOSE k \in DOMAIN normalizedCustomers :
                                               normalizedCustomers[k].id = id]
                    ELSE store.localStorage.customer[id]]
  IN [index |-> normalizedIndex,
      customers |-> normalizedCustomers,
      activeCustomerId |-> store.activeCustomerId,
      localStorage |-> [index |-> normalizedIndex, customer |-> saved]]

replaceAll(store, nextIndex, nextCustomers) ==
  LET normalizedIndex == [i \in 1..Len(nextIndex) |-> normalizeEntry(nextIndex[i])]
      normalizedCustomers == [id \in DOMAIN nextCustomers |->
                                normalizeCustomer(nextCustomers[id])]
      nextIds == {normalizedIndex[i].id : i \in 1..Len(normalizedIndex)}
      existing == {store.index[i].id : i \in 1..Len(store.index)}
      kept == DOMAIN store.localStorage.customer \ (existing \ nextIds)
      byId == {normalizedCustomers[k].id : k \in DOMAIN normalizedCustomers}
      saved == [id \in kept \cup byId |->
                  IF id \in byId
                    THEN normalizedCustomers[CHOOSE k \in DOMAIN normalizedCustomers :
                                               normalizedCustomers[k].id = id]
                    ELSE store.localStorage.customer[id]]
  IN [index |-> normalizedIndex,
      customers |-> normalizedCustomers,
      activeCustomerId |->
        resolveActiveCustomerId(normalizedIndex, store.activeCustomerId),
      localStorage |-> [index |-> normalizedIndex, customer |-> saved]]

\* set(...) of the customer store
CommitCustomerStore(store) ==
  /\ index' = store.index
  /\ customers' = store.customers
  /\ activeCustomerId' = store.activeCustomerId
  /\ customerStorage' = store.localStorage

----------------------------------------------------------------------------
(* The stores driven by the pages: DashboardPage, ClientsPage, App         *)

CustomerIds == {"c1", "c2"}
\* the CSS owner each customer's form names
OwnerOf(id) == IF id = "c1" THEN "o1" ELSE ""
FilterModes == {"inherit", "custom"}

\* the snapshots a session of the pages runs over
StoreCollections == {<<>>, <<Ms1, Eos1, Eos2>>}

\* the filter sets handed to the store directly, as the store's test does
TestCssFilters == baseFilters(<<"Microsoft">>)
TestCustomerFilters == baseFilters(<<"EOS">>)

\* the changes the dashboard's panel passes to updateFilters
StoreEdits == {<<"sources", <<"EOS">>>>}

IndexIds == {index[i].id : i \in 1..Len(index)}

\* DashboardPage: normalizedCssFilters, the snapshots being loaded
normalizedCssFilters ==
  IF Len(items) = 0 THEN Merged(cssFilters)
  ELSE normalizeFilters(cssFilters, defaultFilters, normContext)

\* DashboardPage: activeMode
activeMode ==
  IF activeCustomerId # NULL /\ activeCustomerId \in DOMAIN customerFilterMode
    THEN customerFilterMode[activeCustomerId]
    ELSE "inherit"

\* a step of the stores: the memoized effective filters are stale after it
StoreStep(op, id) ==
  /\ lastOp' = [op |-> op, id |-> id]
  /\ effective' = NullFilters
  /\ UNCHANGED <<snapshotVars, pipeVars, labelVars, pageVars>>

StoreInit ==
  /\ items \in StoreCollections
  /\ Derived(items)
  /\ raw = NullFilters
  /\ pc = "idle"
  /\ normalized = NullFilters
  /\ renormalized = NullFilters
  /\ visibleRaw = <<>>
  /\ visible = <<>>
  /\ exported = <<>>
  /\ StoresEmpty
  /\ LabelsIdle
  /\ PagesIdle

\* useFilterStore.getState().setCssFilters(filters)
SetCssFilters ==
  \E filters \in {TestCssFilters} :
    /\ CommitFilterStore(setCssFilters(FilterStore, filters))
    /\ StoreStep("setCssFilters", NULL)
    /\ UNCHANGED customerStoreVars

\* useFilterStore.getState().setCustomerFilters(customerId, filters)
SetCustomerFilters ==
  \E customerId \in IndexIds, filters \in {TestCustomerFilters} :
    /\ CommitFilterStore(setCustomerFilters(FilterStore, customerId, filters))
    /\ StoreStep("setCustomerFilters", customerId)
    /\ UNCHANGED customerStoreVars

\* useFilterStore.getState().setCustomerMode(customerId, mode)
SetCustomerMode ==
  \E customerId \in IndexIds, mode \in FilterModes :
    /\ CommitFilterStore(setCustomerMode(FilterStore, customerId, mode))
    /\ StoreStep("setCustomerMode", customerId)
    /\ UNCHANGED customerStoreVars

\* DashboardPage: the effect that stores the defaults while nothing is stored
EnsureCssFilters ==
  /\ IsNullFilters(cssFilters)
  /\ CommitFilterStore(ensureCssFilters(FilterStore, defaultFilters))
  /\ StoreStep("ensureCssFilters", NULL)
  /\ UNCHANGED customerStoreVars

\* updateFilters that stores the override of an inheriting customer without switching
\* its mode
updateFiltersKeepingMode(edits) ==
  \E change \in edits :
    /\ CommitFilterStore(
         IF activeCustomerId = NULL
           THEN setCssFilters(FilterStore, WithField(normalizedCssFilters, change))
         ELSE LET current == IF activeMode # "inherit"
                                  /\ activeCustomerId \in DOMAIN customerFilters
                               THEN customerFilters[activeCustomerId]
                               ELSE normalizedCssFilters
              IN setCustomerFilters(FilterStore, activeCustomerId,
                                    WithField(current, change)))
    /\ StoreStep("updateFilters", activeCustomerId)
    /\ UNCHANGED customerStoreVars

\* DashboardPage.updateFilters(nextFilters), nextFilters one of `edits`
updateFilters(edits) ==
  \E change \in edits :
    /\ CommitFilterStore(
         IF activeCustomerId = NULL
           THEN setCssFilters(FilterStore, WithField(normalizedCssFilters, change))
         ELSE IF activeMode = "inherit"
           THEN setCustomerFilters(
                  setCustomerMode(FilterStore, activeCustomerId, "custom"),
                  activeCustomerId, WithField(normalizedCssFilters, change))
         ELSE LET current == IF activeCustomerId \in DOMAIN customerFilters
                               THEN customerFilters[activeCustomerId]
                               ELSE normalizedCssFilters
              IN setCustomerFilters(FilterStore, activeCustomerId,
                                    WithField(current, change)))
    /\ StoreStep("updateFilters", activeCustomerId)
    /\ UNCHANGED customerStoreVars

UpdateFilters == updateFilters(StoreEdits)

\* DashboardPage.setMode(mode)
SetMode ==
  \E mode \in FilterModes :
    /\ activeCustomerId # NULL
    /\ LET seeded == IF mode = "custom" /\ activeCustomerId \notin DOMAIN customerFilters
                       THEN setCustomerFilters(FilterStore, activeCustomerId,
                                               normalizedCssFilters)
                       ELSE FilterStore
       IN CommitFilterStore(setCustomerMode(seeded, activeCustomerId, mode))
    /\ StoreStep("setMode", activeCustomerId)
    /\ UNCHANGED customerStoreVars

\* ClientsPage.onSave with the form's active box ticked: a new customer under an id
\* no customer has, or the customer being edited
OnSave ==
  \E id \in CustomerIds, isActive \in {TRUE} :
    LET payload == Customer(id, OwnerOf(id), isActive)
    IN /\ CommitCustomerStore(
            IF id \in DOMAIN customers
              THEN updateCustomer(CustomerStore, payload)
              ELSE setActiveCustomer(addCustomer(CustomerStore, payload), id))
       /\ StoreStep("onSave", id)
       /\ UNCHANGED filterStoreVars

\* ClientsPage.onDelete on the selected customer
OnDelete ==
  \E id \in DOMAIN customers :
    /\ CommitCustomerStore(deleteCustomer(CustomerStore, id))
    /\ StoreStep("onDelete", id)
    /\ UNCHANGED filterStoreVars

\* App: the customer selector, setActiveCustomer(value || null)
SelectCustomer ==
  \E id \in IndexIds \cup {NULL} :
    /\ CommitCustomerStore(setActiveCustomer(CustomerStore, id))
    /\ StoreStep("setActiveCustomer", id)
    /\ UNCHANGED filterStoreVars

\* a render that resolves the effective filters from the stores as they are
Resolve ==
  /\ IsNullFilters(effective)
  /\ effective' = selectEffectiveFilters(activeCustomerId, cssFilters, customerFilters,
                                         customerFilterMode, defaultFilters, normContext)
  /\ lastOp' = [op |-> "selectEffectiveFilters", id |-> activeCustomerId]
  /\ UNCHANGED <<snapshotVars, pipeVars, filterStoreVars, customerStoreVars, labelVars, pageVars>>

Next ==
  \/ SetCssFilters
  \/ SetCustomerFilters
  \/ SetCustomerMode
  \/ EnsureCssFilters
  \/ UpdateFilters
  \/ SetMode
  \/ OnSave
  \/ OnDelete
  \/ SelectCustomer
  \/ Resolve

Spec == StoreInit /\ [][Next]_vars

----------------------------------------------------------------------------
(* Properties of the normalize-then-filter pass                            *)

MultiValuedFields == SourcedDimensions \cup {"products", "sources"}

Ready == Len(normContext.sourceOptions) > 0 /\ Len(metadata.products) > 0

\* the current options of a dimension that some source of `sources` carries
AvailableValues(field, sources) ==
  IF field = "sources" THEN Range(normContext.sourceOptions)
  ELSE {metadata[field][i].value :
          i \in {j \in 1..Len(metadata[field]) :
                   metadata[field][j].sources \cap Range(sources) # {}}}

\* the canonical labels of the items of a source
ProductsOfSource(source) ==
  {normalizeProductLabel(items[i].productName) :
     i \in {j \in Indices(items) : items[j].source = source}} \ {<<>>}

C4_SourceProductCoverage ==
  (pc # "input" /\ Ready) =>
    \A source \in Range(normalized.sources) :
      ProductsOfSource(source) # {} =>
        ProductsOfSource(source) \cap Range(normalized.products) # {}

\* a stored products selection that named no product of EOS, expanded to cover it
C4_Witness ==
  /\ pc = "normalized"
  /\ Ready
  /\ ~IsNullFilters(raw)
  /\ Includes(normalized.sources, "EOS")
  /\ ProductsOfSource("EOS") # {}
  /\ Merged(raw).products # <<>>
  /\ ProductsOfSource("EOS") \cap Range(Merged(raw).products) = {}
  /\ ProductsOfSource("EOS") \cap Range(normalized.products) # {}

\* a multi-valued field of the stored set that is non-empty and names no option
\* available for the normalized sources
StaleOnly(field) ==
  /\ ~IsNullFilters(raw)
  /\ Merged(raw)[field] # <<>>
  /\ Range(Merged(raw)[field]) \cap AvailableValues(field, normalized.sources) = {}

\* C5 as stated: a selection holding only stale values comes back as all available
\* options or as the empty selection, whatever the context
C5_StaleNeverRestricts_AsStated ==
  pc # "input" =>
    \A field \in MultiValuedFields :
      StaleOnly(field) =>
        \/ normalized[field] = <<>>
        \/ Range(normalized[field]) = AvailableValues(field, normalized.sources)

\* C5, amended: the same, when the normalization context is ready
C5_StaleNeverRestricts ==
  (pc # "input" /\ Ready) =>
    \A field \in MultiValuedFields :
      StaleOnly(field) =>
        \/ normalized[field] = <<>>
        \/ Range(normalized[field]) = AvailableValues(field, normalized.sources)

\* a stale statuses selection replaced by every available status
C5_Witness ==
  /\ pc = "normalized"
  /\ Ready
  /\ StaleOnly("statuses")
  /\ normalized.statuses # <<>>
  /\ Range(normalized.statuses) = AvailableValues("statuses", normalized.sources)

C7_NotReadyUnchanged ==
  (pc # "input" /\ ~Ready /\ ~IsNullFilters(raw)) =>
    /\ normalized = Spread(defaultFilters, raw)
    /\ \A field \in DOMAIN raw : normalized[field] = raw[field]

\* a stale selection kept while no product option is loaded
C7_Witness ==
  /\ pc = "normalized"
  /\ ~Ready
  /\ ~IsNullFilters(raw)
  /\ items # <<>>
  /\ Includes(raw.statuses, "Stale")
  /\ normalized.statuses = raw.statuses

\* the fields of a filter set that hold a dimension the source does not support,
\* with the key of the dimension in the capability table
GatedFields(source) ==
  IF source = "EOS"
    THEN {<<"waves", "wave">>, <<"enabledFor", "enabledFor">>,
          <<"availabilityTypes", "availabilityType">>}
    ELSE {<<"minBcVersionMin", "bcMinVersion">>}

\* the values a field of a filter set may be changed to
ValuesOfField(field) ==
  {c \in FieldChanges : c[1] = field}
    \cup {<<field, IF field = "minBcVersionMin" THEN NONE ELSE <<>> >>}

\* C2: for a record r and a dimension its source does not support (wave, enabledFor
\* and availabilityType for EOS; bcMinVersion for Microsoft), two filter sets that
\* differ only in the value of that dimension agree on whether r is in
\* filterReleaseItems(items, filters)
C2_CapabilityGating ==
  pc = "filtered" =>
    \A i \in Indices(items) :
      \A gated \in GatedFields(items[i].source) :
        /\ ~isFilterSupported(items[i].source, gated[2])
        /\ \A c \in ValuesOfField(gated[1]) :
             Includes(visibleRaw, items[i])
               <=> Includes(filterReleaseItems(items, WithField(Merged(raw), c), Now),
                            items[i])

\* an EOS item shown under a wave selection that does not name its wave, next to a
\* Microsoft item the same selection hides
C2_Witness ==
  /\ pc = "filtered"
  /\ Merged(raw).waves # <<>>
  /\ \E i \in Indices(items) :
       /\ items[i].source = "EOS"
       /\ ~Includes(Merged(raw).waves, items[i].wave)
       /\ Includes(visibleRaw, items[i])
  /\ \E j \in Indices(items) :
       /\ items[j].source = "Microsoft"
       /\ ~Includes(visibleRaw, items[j])
       /\ Includes(filterReleaseItems(items, WithField(Merged(raw), <<"waves", <<>>>>), Now),
                   items[j])

\* C10: with a floor set, a record is in the result iff it is in the result without
\* the floor and, when its source supports bcMinVersion, its minBcVersion is null or
\* at least the floor; a null version, or a source that does not support
\* bcMinVersion, is never excluded by the floor
C10_MinVersionFloor ==
  (pc = "filtered" /\ Merged(raw).minBcVersionMin # NONE) =>
    \A i \in Indices(items) :
      LET floor == Merged(raw).minBcVersionMin
          floorless == WithField(Merged(raw), <<"minBcVersionMin", NONE>>)
          otherwise == Includes(filterReleaseItems(items, floorless, Now), items[i])
          supported == items[i].source = "EOS"
          version == items[i].minBcVersion
      IN /\ supported = isFilterSupported(items[i].source, "bcMinVersion")
         /\ Includes(visibleRaw, items[i])
              <=> (otherwise /\ (supported => (version = NONE \/ version >= floor)))

\* floor 22: the EOS item of version 22 and the one of null version are shown, the
\* EOS item of version 21 is hidden, the Microsoft item of version 20 is shown
C10_Witness ==
  /\ pc = "filtered"
  /\ Merged(raw).minBcVersionMin = 22
  /\ \E i \in Indices(items) :
       items[i].source = "EOS" /\ items[i].minBcVersion = 22
         /\ Includes(visibleRaw, items[i])
  /\ \E i \in Indices(items) :
       items[i].source = "EOS" /\ items[i].minBcVersion = 21
         /\ ~Includes(visibleRaw, items[i])
  /\ \E i \in Indices(items) :
       items[i].source = "Microsoft" /\ items[i].minBcVersion = 20
         /\ Includes(visibleRaw, items[i])

----------------------------------------------------------------------------
(* Properties of the stores                                                *)

\* the active customer is in custom mode and has a stored override
CustomApplies ==
  /\ activeCustomerId # NULL
  /\ activeCustomerId \in DOMAIN customerFilterMode
  /\ customerFilterMode[activeCustomerId] = "custom"
  /\ activeCustomerId \in DOMAIN customerFilters

\* what the resolution rule gives for the stores as they are
ResolvedByRule ==
  IF CustomApplies
    THEN normalizeFilters(customerFilters[activeCustomerId], defaultFilters, normContext)
    ELSE normalizeFilters(cssFilters, defaultFilters, normContext)

\* C3: selectEffectiveFilters returns the normalized global filters when no customer
\* is active, when the active customer's mode is inherit or missing, and when the
\* mode is custom but no override is stored; it returns the normalized override,
\* normalized on its own, only when the mode is custom and an override is stored;
\* and the stored global filters are the same after it as before
C3_EffectiveResolution ==
  [][lastOp'.op = "selectEffectiveFilters"
       => (effective' = ResolvedByRule /\ cssFilters' = cssFilters)]_vars

\* global sources [Microsoft], the active customer in custom mode with an override of
\* sources [EOS]: the override is what resolves, the global filters still stored
C3_Witness ==
  /\ lastOp.op = "selectEffectiveFilters"
  /\ CustomApplies
  /\ ~IsNullFilters(cssFilters)
  /\ cssFilters.sources = <<"Microsoft">>
  /\ customerFilters[activeCustomerId].sources = <<"EOS">>
  /\ effective.sources = <<"EOS">>
  /\ effective # normalizeFilters(cssFilters, defaultFilters, normContext)

\* C8: setCustomerFilters(id, f) leaves the global filters, every other customer's
\* override and every mode as they were; setCssFilters(g) leaves every override and
\* every mode as they were
C8_StoreScoping ==
  [][/\ lastOp'.op = "setCustomerFilters" =>
          /\ cssFilters' = cssFilters
          /\ customerFilterMode' = customerFilterMode
          /\ DOMAIN customerFilters' = DOMAIN customerFilters \cup {lastOp'.id}
          /\ \A other \in DOMAIN customerFilters \ {lastOp'.id} :
               customerFilters'[other] = customerFilters[other]
     /\ lastOp'.op = "setCssFilters" =>
          /\ customerFilters' = customerFilters
          /\ customerFilterMode' = customerFilterMode]_vars

\* an override just stored for c1 while c2 keeps an override of its own, the global
\* filters and a mode entry
C8_Witness ==
  /\ lastOp = [op |-> "setCustomerFilters", id |-> "c1"]
  /\ customerFilters["c1"] = TestCustomerFilters
  /\ "c2" \in DOMAIN customerFilters
  /\ customerFilters["c2"] # TestCustomerFilters
  /\ cssFilters = TestCssFilters
  /\ "c2" \in DOMAIN customerFilterMode

\* C9: customerFilterMode and customerFilters hold entries only for customers that
\* are in the customer index
C9_ModeLifecycle ==
  (DOMAIN customerFilterMode \cup DOMAIN customerFilters) \subseteq IndexIds

----------------------------------------------------------------------------
(* The dashboard with one customer selected                                *)

\* the changes the dashboard's filter panel makes, one field at a time
DashboardEdits ==
  {<<"sources", <<"EOS">>>>, <<"statuses", <<"Planned">>>>, <<"products", <<LabelC>>>>}

\* DashboardPage: normalizedCssFilters over the global filters `css`
NormalizedCss(css) ==
  IF Len(items) = 0
    THEN IF IsNullFilters(css) THEN defaultFilters ELSE Spread(defaultFilters, css)
    ELSE normalizeFilters(css, defaultFilters, normContext)

\* DashboardPage: activeFilters over the stores' values
ActiveFilters(id, css, custom, mode) ==
  IF id = NULL THEN NormalizedCss(css)
  ELSE IF id \notin DOMAIN mode \/ mode[id] = "inherit" THEN NormalizedCss(css)
  ELSE IF id \notin DOMAIN custom THEN NormalizedCss(css)
  ELSE IF Len(items) = 0 THEN Spread(defaultFilters, custom[id])
  ELSE normalizeFilters(custom[id], defaultFilters, normContext)

\* the stores once ClientsPage has saved customer c1, which onSave leaves selected
DashInit ==
  /\ items \in StoreCollections
  /\ Derived(items)
  /\ raw = NullFilters
  /\ pc = "idle"
  /\ normalized = NullFilters
  /\ renormalized = NullFilters
  /\ visibleRaw = <<>>
  /\ visible = <<>>
  /\ exported = <<>>
  /\ LabelsIdle
  /\ PagesIdle
  /\ cssFilters = NullFilters
  /\ customerFilters = EmptyMap
  /\ customerFilterMode = EmptyMap
  /\ filterStorage = [css |-> NullFilters, custom |-> EmptyMap, mode |-> EmptyMap]
  /\ LET empty == [index |-> <<>>, customers |-> EmptyMap, activeCustomerId |-> NULL,
                   localStorage |-> [index |-> <<>>, customer |-> EmptyMap]]
         saved == setActiveCustomer(addCustomer(empty, Customer("c1", OwnerOf("c1"), TRUE)),
                                    "c1")
     IN /\ index = saved.index
        /\ customers = saved.customers
        /\ activeCustomerId = saved.activeCustomerId
        /\ customerStorage = saved.localStorage
  /\ effective = NullFilters
  /\ lastOp = [op |-> "onSave", id |-> "c1"]

\* the filter panel of the dashboard
EditFilters == updateFilters(DashboardEdits)

DashNext ==
  \/ SetCssFilters
  \/ EnsureCssFilters
  \/ EditFilters
  \/ SetMode
  \/ SelectCustomer
  \/ Resolve

SpecDashboard == DashInit /\ [][DashNext]_vars

----------------------------------------------------------------------------
(* Properties of the dashboard's customer-scoped edits                     *)

\* the fields in which two filter sets differ
DifferingFields(a, b) ==
  {k \in DOMAIN a \cup DOMAIN b : k \notin DOMAIN a \/ k \notin DOMAIN b \/ a[k] # b[k]}

\* the step is updateFilters(change) of the dashboard while `id` is active
CustomerEdit(id) ==
  /\ activeCustomerId = id
  /\ id # NULL
  /\ lastOp'.op = "updateFilters"

\* the stores after the edit of an inheriting customer: global filters as they were,
\* mode custom, override = normalized global filters overlaid with the change
OverrideStored(id, change) ==
  /\ id \in DOMAIN customerFilterMode' /\ customerFilterMode'[id] = "custom"
  /\ id \in DOMAIN customerFilters'
  /\ customerFilters'[id] = WithField(normalizedCssFilters, change)
  /\ filterStorage'.custom = customerFilters'
  /\ filterStorage'.mode = customerFilterMode'

\* the fields in which the customer's effective filters differ from the global ones
\* in the state the step leads to
EditedAway(id) ==
  DifferingFields(
    ActiveFilters(id, cssFilters', customerFilters', customerFilterMode'),
    ActiveFilters(NULL, cssFilters', customerFilters', customerFilterMode'))

\* the selections normalizeFilters derives from the sources
SourceScopedFields ==
  {"products", "statuses", "categories", "tags", "waves", "months",
   "availabilityTypes", "enabledFor", "geography", "language"}

\* C22 as stated: updateFilters(change) while a customer is active leaves the stored
\* global filters unchanged; for a customer in inherit mode it switches the customer
\* to custom and stores the normalized global filters overlaid with the change, and
\* afterwards the customer's effective filters differ from the global ones only in
\* the changed field.
C22_CustomerScopedEdit_AsStated ==
  [][\A id \in CustomerIds :
       CustomerEdit(id) =>
         /\ cssFilters' = cssFilters
         /\ filterStorage'.css = filterStorage.css
         /\ activeMode = "inherit" =>
              \E change \in DashboardEdits :
                /\ OverrideStored(id, change)
                /\ EditedAway(id) \subseteq {change[1]}]_vars

\* C22 (amended): updateFilters(change) while a customer is active leaves the stored
\* global filters unchanged; for a customer in inherit mode it switches the customer
\* to custom and stores the normalized global filters overlaid with the change, and
\* afterwards the customer's effective filters differ from the global ones only in
\* the changed field and, when the sources were changed, in the selections that
\* normalization derives from the sources.
C22_CustomerScopedEdit ==
  [][\A id \in CustomerIds :
       CustomerEdit(id) =>
         /\ cssFilters' = cssFilters
         /\ filterStorage'.css = filterStorage.css
         /\ activeMode = "inherit" =>
              \E change \in DashboardEdits :
                /\ OverrideStored(id, change)
                /\ EditedAway(id) \subseteq
                     {change[1]} \cup (IF change[1] = "sources" THEN SourceScopedFields
                                       ELSE {})]_vars

\* a customer that inherited global filters restricted to one source has just had
\* its sources edited on loaded snapshots, and now shows products of the new source
C22_Witness ==
  /\ lastOp.op = "updateFilters"
  /\ lastOp.id # NULL
  /\ Len(items) > 0
  /\ ~IsNullFilters(cssFilters)
  /\ lastOp.id \in DOMAIN customerFilters
  /\ lastOp.id \in DOMAIN customerFilterMode
  /\ customerFilterMode[lastOp.id] = "custom"
  /\ customerFilters[lastOp.id] = WithField(normalizedCssFilters, <<"sources", <<"EOS">>>>)
  /\ DifferingFields(ActiveFilters(lastOp.id, cssFilters, customerFilters,
                                   customerFilterMode),
                     normalizedCssFilters) = {"sources", "products"}

----------------------------------------------------------------------------
(* Properties of the filter metadata                                       *)

\* the items whose productName normalizes to the label
ItemsOfLabel(label) ==
  {i \in Indices(items) : normalizeProductLabel(items[i].productName) = label}

\* the values an item carries in a dimension other than products
ValuesIn(field, item) ==
  CASE field = "sources" -> {item.source}
    [] field = "statuses" -> {item.status}
    [] field = "categories" -> {item.category}
    [] field = "tags" -> Range(item.tags)
    [] field = "waves" -> {item.wave}
    [] field = "months" -> {item.availabilityDate}
    [] field = "availabilityTypes" -> Range(item.availabilityTypes)
    [] field = "enabledFor" -> {item.enabledFor}
    [] field = "geography" -> Range(ItemGeography(item))
    [] field = "language" -> {item.language}

\* C21: metadata.products holds exactly one option per distinct non-empty canonical
\* label, counting the items that normalize to it and naming exactly their sources;
\* in every other dimension the sources of an option are exactly the sources of the
\* items that carry its value
C21_MetadataMerging ==
  pc = "input" =>
    /\ {metadata.products[k].value : k \in 1..Len(metadata.products)}
         = {normalizeProductLabel(items[i].productName) : i \in Indices(items)} \ {<<>>}
    /\ \A k, l \in 1..Len(metadata.products) :
         metadata.products[k].value = metadata.products[l].value => k = l
    /\ \A k \in 1..Len(metadata.products) :
         LET option == metadata.products[k]
         IN /\ option.count = Cardinality(ItemsOfLabel(option.value))
            /\ option.sources = {items[i].source : i \in ItemsOfLabel(option.value)}
    /\ \A field \in DOMAIN metadata \ {"products"} :
         \A k \in 1..Len(metadata[field]) :
           metadata[field][k].sources
             = {items[i].source :
                  i \in {j \in Indices(items) :
                           metadata[field][k].value \in ValuesIn(field, items[j])}}

\* "a" of Microsoft and "A" of EOS merged into one option of count 2 and both
\* sources, next to an item whose empty productName gives no option
C21_Witness ==
  /\ pc = "input"
  /\ \E k \in 1..Len(metadata.products) :
       /\ metadata.products[k] = [value |-> LabelA, count |-> 2,
                                  sources |-> {"Microsoft", "EOS"}]
       /\ \E i, j \in ItemsOfLabel(LabelA) : items[i].productName # items[j].productName
  /\ \E i \in Indices(items) : normalizeProductLabel(items[i].productName) = <<>>
  /\ Len(metadata.products) < Len(items) - 1

----------------------------------------------------------------------------
(* Properties of the product dimension                                     *)

\* the selection names a product that the product source map gives to the source
HasProductForSource(filters, source) ==
  \E i \in 1..Len(filters.products) :
    MapGet(FilterProductSourceMap(items), filters.products[i]) = source

LabelsOfSource(source) ==
  {normalizeProductLabel(items[i].productName) :
     i \in {j \in Indices(items) : items[j].source = source}}

\* the rule of the products dimension for one item under one filter set: excluded
\* only with a selected product of its source and its own label not selected
ProductRule(item, filters, productSourceMap) ==
  LET passes == PassesProducts(item, filters, productSourceMap)
      chosen == Range(filters.products)
  IN /\ ~passes => /\ chosen \cap LabelsOfSource(item.source) # {}
                   /\ normalizeProductLabel(item.productName) \notin chosen
     /\ chosen \cap LabelsOfSource(item.source) = {} => passes

----------------------------------------------------------------------------
(* Properties of the temporal filters                                      *)

\* the instants a filter pass is run at: the first and the last instant of month 10,
\* noon of its first day, and the first instant of month 11
Instants == {MonthStart(10), Now, MonthStart(11) - 1, MonthStart(11)}

\* the availability date names a month whose first instant lies more than
\* horizonMonths months after now or more than historyMonths months before now
OutsideWindow(item, filters, now) ==
  LET date == item.availabilityDate
      month == IF date.k = "ym" THEN date.v ELSE date.v \div DaysPerMonth
      start == month * DaysPerMonth * TicksPerDay
      span(months) == months * DaysPerMonth * TicksPerDay
  IN /\ date.k \in {"ym", "ymd"}
     /\ \/ start - now > span(filters.horizonMonths)
        \/ now - start > span(filters.historyMonths)

\* the windows a filter set may hold
Windows == [horizonMonths : {0, 1, 3}, historyMonths : {0, 1, 3}]

\* the item passes the horizon and the history predicate
PassesWindow(item, filters, now) ==
  PassesHorizon(item, filters, now) /\ PassesHistory(item, filters, now)

Parsable(date) == date.k \in {"ymd", "ym"}

\* the first instant of the day, or of the month, a parsable date text names
InstantOf(date) ==
  IF date.k = "ymd" THEN date.v * TicksPerDay
  ELSE date.v * DaysPerMonth * TicksPerDay

\* a parsable date that lies in [from, to]
DateWithin(date, from, to) ==
  Parsable(date) /\ from <= InstantOf(date) /\ InstantOf(date) <= to

\* the three day windows of one item for windows of `days` days ending, or starting,
\* at `now`
DayWindowRules(item, days, now) ==
  LET span == days * TicksPerDay
      filters == [periodNewDays |-> days, periodChangedDays |-> days,
                  releaseInDays |-> days]
      reference == IF Parsable(item.lastUpdatedDate) THEN item.lastUpdatedDate
                   ELSE item.releaseDate
  IN /\ PassesPeriodNewDays(item, filters, now)
          <=> (days = 0 \/ DateWithin(item.releaseDate, now - span, now))
     /\ PassesPeriodChangedDays(item, filters, now)
          <=> (days = 0 \/ DateWithin(reference, now - span, now))
     /\ PassesReleaseInDays(item, filters, now)
          <=> (days = 0 \/ DateWithin(item.releaseDate, now, now + span))

\* C20: with periodNewDays = N > 0 an item passes iff its release date lies in
\* [now - N days, now]; with periodChangedDays = N > 0 the same for its last-updated
\* date, or its release date when the last-updated date is missing or unreadable;
\* with releaseInDays = N > 0 iff its release date lies in [now, now + N days]; an
\* item with no readable reference date fails an active window; 0 restricts nothing;
\* and an item that fails a window of the filter set is not shown
C20_DayWindows ==
  pc = "filtered" =>
    \A i \in Indices(items) :
      /\ \A now \in {Now - 2 * TicksPerDay, Now, Now + TicksPerDay, Now + 2 * TicksPerDay} :
           \A days \in 0..3 : DayWindowRules(items[i], days, now)
      /\ DayWindowRules(items[i], normalized.periodNewDays, Now)
      /\ DayWindowRules(items[i], normalized.periodChangedDays, Now)
      /\ DayWindowRules(items[i], normalized.releaseInDays, Now)
      /\ Includes(visible, items[i]) =>
           /\ PassesPeriodNewDays(items[i], normalized, Now)
           /\ PassesPeriodChangedDays(items[i], normalized, Now)
           /\ PassesReleaseInDays(items[i], normalized, Now)

\* a two-day window on changes: an item updated today is shown, an item updated more
\* than two days ago and an item whose only date lies ahead are hidden by it
C20_Witness ==
  /\ pc = "filtered"
  /\ normalized.periodChangedDays = 2
  /\ \E i, j, k \in Indices(items) :
       /\ DateWithin(items[i].lastUpdatedDate, Now - 2 * TicksPerDay, Now)
       /\ Includes(visible, items[i])
       /\ Parsable(items[j].lastUpdatedDate)
       /\ ~Parsable(items[j].releaseDate)
       /\ InstantOf(items[j].lastUpdatedDate) < Now - 2 * TicksPerDay
       /\ ~Includes(visible, items[j])
       /\ ~Parsable(items[k].lastUpdatedDate)
       /\ InstantOf(items[k].releaseDate) > Now
       /\ ~PassesPeriodChangedDays(items[k], normalized, Now)
       /\ PassesPeriodChangedDays(items[k], normalized, Now + TicksPerDay)

----------------------------------------------------------------------------
(* Properties of the targeting fields                                      *)

TargetingFields == {"targetCustomerIds", "targetGroupIds", "targetCssOwners"}

\* the filter set with its targeting fields filled in other ways: none, one of the
\* three, or all of them
Retargeted(filters) ==
  {Spread(filters, [targetCustomerIds |-> target[1], targetGroupIds |-> target[2],
                    targetCssOwners |-> target[3]]) :
     target \in {<<<<>>, <<>>, <<>>>>, <<<<"c1">>, <<>>, <<>>>>, <<<<>>, <<"g1">>, <<>>>>,
                 <<<<>>, <<>>, <<"o1">>>>, <<<<"c2", "c1">>, <<"g1">>, <<"o1">>>>}}

\* stripTargetingFields(filters) has the three targeting fields empty and every
\* other field as filters has it
StripsOnlyTargeting(filters) ==
  LET stripped == stripTargetingFields(filters)
  IN /\ DOMAIN stripped = DOMAIN filters \cup TargetingFields
     /\ \A field \in TargetingFields : stripped[field] = <<>>
     /\ \A field \in DOMAIN filters \ TargetingFields : stripped[field] = filters[field]

\* C13: filter sets that differ only in targetCustomerIds, targetGroupIds or
\* targetCssOwners show the same items, and stripTargetingFields empties exactly
\* these three fields
C13_TargetingInert ==
  pc = "filtered" =>
    /\ \A other \in Retargeted(normalized) \cup {stripTargetingFields(normalized)} :
         filterReleaseItems(items, other, Now) = visible
    /\ StripsOnlyTargeting(normalized)
    /\ ~IsNullFilters(raw) => StripsOnlyTargeting(raw)

\* a filter set targeted at a CSS owner that shows some items and hides others
C13_Witness ==
  /\ pc = "filtered"
  /\ ~IsNullFilters(raw)
  /\ raw.targetCssOwners = <<"o1">>
  /\ normalized.targetCssOwners = <<"o1">>
  /\ stripTargetingFields(normalized) # normalized
  /\ visible # <<>>
  /\ Len(visible) < Len(items)

----------------------------------------------------------------------------
(* Properties relating the stored and the normalized filter set            *)

\* C14: every item shown under the stored filter set merged with the defaults is
\* shown under the normalized filter set
C14_RepairShowsMore ==
  pc = "filtered" => Range(visibleRaw) \subseteq Range(visible)

\* the predicate of filterReleaseItems that reads a multi-valued field
PassesDimension(field, item, filters) ==
  CASE field = "sources" -> PassesSources(item, filters)
    [] field = "statuses" -> PassesStatuses(item, filters)
    [] field = "products" -> PassesProducts(item, filters, FilterProductSourceMap(items))
    [] field = "categories" -> PassesCategories(item, filters)
    [] field = "waves" -> PassesWaves(item, filters)
    [] field = "availabilityTypes" -> PassesAvailabilityTypes(item, filters)
    [] field = "enabledFor" -> PassesEnabledFor(item, filters)
    [] field = "geography" -> PassesGeography(item, filters)
    [] field = "language" -> PassesLanguage(item, filters)
    [] field = "tags" -> PassesTags(item, filters)
    [] field = "months" -> PassesMonths(item, filters)

\* the multi-valued fields that the stored set, merged with the defaults, leaves empty
EmptyFields == {field \in MultiValuedFields : Merged(raw)[field] = <<>>}

\* C15: a multi-valued dimension that is empty in the raw filter set excludes no
\* item under the normalized filter set
C15_EmptyUnrestricted ==
  pc = "filtered" =>
    \A field \in EmptyFields :
      \A i \in Indices(items) : PassesDimension(field, items[i], normalized)

\* C15 for every dimension but products
C15_EmptyUnrestrictedButProducts ==
  pc = "filtered" =>
    \A field \in EmptyFields \ {"products"} :
      /\ normalized[field] = <<>>
      /\ \A i \in Indices(items) : PassesDimension(field, items[i], normalized)

----------------------------------------------------------------------------
(* Creation of the filter store over a localStorage left by an earlier     *)
(* session: loadInitial, then the first resolution of the effective set    *)

\* what localStorage can hold under CSS_KEY, CUSTOM_KEY and MODE_KEY: no entry, the
\* empty string, text that JSON.parse rejects, or the JSON text of a value
StoredPayloads ==
  [css : {[kind |-> "absent"], [kind |-> "empty"], [kind |-> "text"],
          [kind |-> "json", value |-> NullFilters],
          [kind |-> "json", value |-> TestCssFilters]},
   custom : {[kind |-> "absent"], [kind |-> "text"],
             [kind |-> "json", value |-> Put(EmptyMap, "c1", TestCustomerFilters)]},
   mode : {[kind |-> "absent"], [kind |-> "text"],
           [kind |-> "json", value |-> Put(EmptyMap, "c1", "inherit")],
           [kind |-> "json", value |-> Put(EmptyMap, "c1", "custom")]}]

\* readJson that takes unparsable text for an empty object
readJsonEmptyObject(localStorage, key, fallback) ==
  LET stored == localStorage[key]
  IN IF stored.kind \in {"absent", "empty"} THEN fallback
     ELSE IF stored.kind = "json" THEN stored.value
     ELSE EmptyMap

readJson(localStorage, key, fallback) ==
  LET stored == localStorage[key]
  IN IF stored.kind \in {"absent", "empty"} THEN fallback
     ELSE IF stored.kind = "json" THEN stored.value
     ELSE fallback

loadInitial(localStorage) ==
  [cssFilters |-> readJson(localStorage, "css", NullFilters),
   customerFilters |-> readJson(localStorage, "custom", EmptyMap),
   customerFilterMode |-> readJson(localStorage, "mode", EmptyMap)]

\* before the filter store is created; the customer store is empty or holds the
\* active customer c1
LoadInit ==
  /\ items \in StoreCollections
  /\ Derived(items)
  /\ raw = NullFilters
  /\ pc = "idle"
  /\ normalized = NullFilters
  /\ renormalized = NullFilters
  /\ visibleRaw = <<>>
  /\ visible = <<>>
  /\ exported = <<>>
  /\ LabelsIdle
  /\ PagesIdle
  /\ filterStorage \in StoredPayloads
  /\ cssFilters = NullFilters
  /\ customerFilters = EmptyMap
  /\ customerFilterMode = EmptyMap
  /\ \E store \in {[index |-> <<>>, customers |-> EmptyMap, activeCustomerId |-> NULL,
                    localStorage |-> [index |-> <<>>, customer |-> EmptyMap]]} :
       \E loaded \in {store, addCustomer(store, Customer("c1", OwnerOf("c1"), TRUE))} :
         /\ index = loaded.index
         /\ customers = loaded.customers
         /\ activeCustomerId = loaded.activeCustomerId
         /\ customerStorage = loaded.localStorage
  /\ effective = NullFilters
  /\ lastOp = [op |-> "boot", id |-> NULL]

\* create<FilterStoreState>(...): const initial = loadInitial()
LoadInitial ==
  /\ lastOp.op = "boot"
  /\ LET initial == loadInitial(filterStorage)
     IN /\ cssFilters' = initial.cssFilters
        /\ customerFilters' = initial.customerFilters
        /\ customerFilterMode' = initial.customerFilterMode
  /\ StoreStep("loadInitial", NULL)
  /\ UNCHANGED <<filterStorage, customerStoreVars>>

\* the first render after the store exists
ResolveLoaded == lastOp.op = "loadInitial" /\ Resolve

LoadNext == LoadInitial \/ ResolveLoaded

SpecLoad == LoadInit /\ [][LoadNext]_vars

\* the global payload is missing or is not JSON
GlobalPayloadUnusable == filterStorage.css.kind \in {"absent", "empty", "text"}

\* C16 as stated: with the global payload absent or unparsable the store loads
\* cssFilters as null and the effective filter set is the default filter set
C16_MalformedPayload_AsStated ==
  (lastOp.op # "boot" /\ GlobalPayloadUnusable) =>
    /\ cssFilters = NullFilters
    /\ lastOp.op = "selectEffectiveFilters" => effective = defaultFilters

\* C16, amended: the same, when no override of the active customer applies
C16_MalformedPayload ==
  (lastOp.op # "boot" /\ GlobalPayloadUnusable) =>
    /\ cssFilters = NullFilters
    /\ (lastOp.op = "selectEffectiveFilters" /\ ~CustomApplies)
         => effective = defaultFilters

\* unparsable text under CSS_KEY, an active customer in inherit mode with a stored
\* override, and the defaults resolved
C16_Witness ==
  /\ lastOp.op = "selectEffectiveFilters"
  /\ filterStorage.css.kind = "text"
  /\ activeCustomerId = "c1"
  /\ "c1" \in DOMAIN customerFilters
  /\ customerFilterMode = Put(EmptyMap, "c1", "inherit")
  /\ cssFilters = NullFilters
  /\ effective = defaultFilters
  /\ effective # normalizeFilters(customerFilters["c1"], defaultFilters, normContext)

----------------------------------------------------------------------------
(* The filter store under all its operations, with the group store         *)
(* (store/useFilterStore, store/useCustomerGroupStore, ClientsPage)        *)

GroupIds == {"g1", "g2"}

\* a customer group; its name and members play no part in the filters
Group(id) == [id |-> id]

\* useCustomerGroupStore.addGroup, the id it creates being group.id
addGroup(list, group) == Append(list, group)

\* useCustomerGroupStore.deleteGroup(id)
deleteGroup(list, id) == SelectSeq(list, LAMBDA entry : entry.id # id)

\* the ids of the groups, in the order of the store
GroupIdList == [i \in 1..Len(groups) |-> groups[i].id]

\* the global filters handed to setCssFilters: the store test's filter set, aimed at
\* no group or at the groups that exist
GlobalFilterSets ==
  {TestCssFilters, WithField(TestCssFilters, <<"targetGroupIds", GroupIdList>>)}

\* ClientsPage: the ids of filteredIndex, whatever the search box holds, when
\* it is not empty
BulkIds ==
  {SelectSeq([i \in 1..Len(index) |-> index[i].id], LAMBDA id : id \in chosen) :
     chosen \in SUBSET IndexIds} \ {<<>>}

\* both stores once ClientsPage has saved the customers c1 and c2; no group yet
FilterStoreInit ==
  /\ items = <<Ms1, Eos1, Eos2>>
  /\ Derived(items)
  /\ raw = NullFilters
  /\ pc = "idle"
  /\ normalized = NullFilters
  /\ renormalized = NullFilters
  /\ visibleRaw = <<>>
  /\ visible = <<>>
  /\ exported = <<>>
  /\ LabelsIdle
  /\ PagesIdle
  /\ cssFilters = NullFilters
  /\ customerFilters = EmptyMap
  /\ customerFilterMode = EmptyMap
  /\ filterStorage = [css |-> NullFilters, custom |-> EmptyMap, mode |-> EmptyMap]
  /\ LET empty == [index |-> <<>>, customers |-> EmptyMap, activeCustomerId |-> NULL,
                   localStorage |-> [index |-> <<>>, customer |-> EmptyMap]]
         saved == addCustomer(addCustomer(empty, Customer("c1", OwnerOf("c1"), TRUE)),
                              Customer("c2", OwnerOf("c2"), TRUE))
     IN /\ index = saved.index
        /\ customers = saved.customers
        /\ activeCustomerId = saved.activeCustomerId
        /\ customerStorage = saved.localStorage
  /\ effective = NullFilters
  /\ lastOp = [op |-> "create", id |-> NULL]

\* a step of the filter store made by operation `op`
FilterStoreStep(op) ==
  /\ lastOp' = [op |-> op, id |-> NULL]
  /\ effective' = NullFilters
  /\ UNCHANGED <<snapshotVars, pipeVars, labelVars, toggleVars, customerStoreVars>>

callSetCssFilters(filters) ==
  /\ CommitFilterStore(setCssFilters(FilterStore, filters))
  /\ FilterStoreStep("setCssFilters")
  /\ UNCHANGED groupVars

callSetCustomerFilters(customerId, filters) ==
  /\ CommitFilterStore(setCustomerFilters(FilterStore, customerId, filters))
  /\ FilterStoreStep("setCustomerFilters")
  /\ UNCHANGED groupVars

callSetCustomerMode(customerId, mode) ==
  /\ CommitFilterStore(setCustomerMode(FilterStore, customerId, mode))
  /\ FilterStoreStep("setCustomerMode")
  /\ UNCHANGED groupVars

callEnsureCssFilters(defaults) ==
  /\ CommitFilterStore(ensureCssFilters(FilterStore, defaults))
  /\ FilterStoreStep("ensureCssFilters")
  /\ UNCHANGED groupVars

callResetAllFilters(defaults) ==
  /\ CommitFilterStore(resetAllFilters(FilterStore, defaults))
  /\ FilterStoreStep("resetAllFilters")
  /\ UNCHANGED groupVars

callResetCustomerFilters(customerId) ==
  /\ CommitFilterStore(resetCustomerFilters(FilterStore, customerId))
  /\ FilterStoreStep("resetCustomerFilters")
  /\ UNCHANGED groupVars

callApplyGlobalToCustomers(customerIds, globalFilters) ==
  /\ CommitFilterStore(applyGlobalToCustomers(FilterStore, customerIds, globalFilters))
  /\ FilterStoreStep("applyGlobalToCustomers")
  /\ UNCHANGED groupVars

callClearOverridesForCustomers(customerIds) ==
  /\ CommitFilterStore(clearOverridesForCustomers(FilterStore, customerIds))
  /\ FilterStoreStep("clearOverridesForCustomers")
  /\ UNCHANGED groupVars

\* ClientsPage.onConfirmDeleteGroup with groupDeleteId = groupId
confirmDeleteGroup(groupId) ==
  /\ groups' = deleteGroup(groups, groupId)
  /\ groupStorage' = groups'
  /\ CommitFilterStore(removeGroupFromFilters(FilterStore, groupId))
  /\ FilterStoreStep("removeGroupFromFilters")
  /\ UNCHANGED toggleVars

CallSetCssFilters == \E filters \in GlobalFilterSets : callSetCssFilters(filters)

CallSetCustomerFilters ==
  \E customerId \in CustomerIds : callSetCustomerFilters(customerId, TestCustomerFilters)

CallSetCustomerMode ==
  \E customerId \in CustomerIds, mode \in FilterModes :
    callSetCustomerMode(customerId, mode)

CallEnsureCssFilters == callEnsureCssFilters(defaultFilters)

CallResetAllFilters == callResetAllFilters(defaultFilters)

CallResetCustomerFilters ==
  \E customerId \in CustomerIds : callResetCustomerFilters(customerId)

\* ClientsPage.onBulkApplyGlobal
OnBulkApplyGlobal ==
  \E ids \in BulkIds :
    callApplyGlobalToCustomers(ids, normalizeFilters(cssFilters, defaultFilters,
                                                     normContext))

\* ClientsPage.onBulkClearOverrides
OnBulkClearOverrides == \E ids \in BulkIds : callClearOverridesForCustomers(ids)

\* ClientsPage.onConfirmDeleteGroup
OnConfirmDeleteGroup == \E groupId \in Range(GroupIdList) : confirmDeleteGroup(groupId)

\* ClientsPage: the group form saved for a new group
AddGroup ==
  \E id \in GroupIds \ Range(GroupIdList) :
    /\ groups' = addGroup(groups, Group(id))
    /\ groupStorage' = groups'
    /\ lastOp' = [op |-> "addGroup", id |-> NULL]
    /\ UNCHANGED <<snapshotVars, pipeVars, labelVars, toggleVars, customerStoreVars,
                   filterStoreVars, effective>>

\* the page loaded again: create<FilterStoreState>(...) over what persist has left
Reload ==
  /\ LET initial == loadInitial(StoredText(filterStorage))
     IN /\ cssFilters' = initial.cssFilters
        /\ customerFilters' = initial.customerFilters
        /\ customerFilterMode' = initial.customerFilterMode
  /\ FilterStoreStep("loadInitial")
  /\ UNCHANGED <<filterStorage, groupVars>>

FilterStoreNext ==
  \/ CallSetCssFilters
  \/ CallSetCustomerFilters
  \/ CallSetCustomerMode
  \/ CallEnsureCssFilters
  \/ CallResetAllFilters
  \/ CallResetCustomerFilters
  \/ OnBulkApplyGlobal
  \/ OnBulkClearOverrides
  \/ OnConfirmDeleteGroup
  \/ AddGroup
  \/ Reload

SpecFilterStore == FilterStoreInit /\ [][FilterStoreNext]_vars

----------------------------------------------------------------------------
(* Properties of the filter store's bulk operations                        *)

\* customer `id` has neither a stored override nor a mode entry
NoEntries(id, custom, mode) == id \notin DOMAIN custom /\ id \notin DOMAIN mode

\* the step leaves the override and the mode entry of customer `id` as they were,
\* in the store and under the storage keys
EntriesKept(id) ==
  /\ (id \in DOMAIN customerFilters') = (id \in DOMAIN customerFilters)
  /\ id \in DOMAIN customerFilters => customerFilters'[id] = customerFilters[id]
  /\ (id \in DOMAIN customerFilterMode') = (id \in DOMAIN customerFilterMode)
  /\ id \in DOMAIN customerFilterMode => customerFilterMode'[id] = customerFilterMode[id]

\* the step removes both entries of the customers in `ids`, in the store and under
\* the storage keys, and changes neither the other customers nor the global filters
Cleared(ids) ==
  /\ \A id \in ids : NoEntries(id, customerFilters', customerFilterMode')
  /\ \A id \in ids : NoEntries(id, filterStorage'.custom, filterStorage'.mode)
  /\ \A id \in CustomerIds \ ids : EntriesKept(id)
  /\ cssFilters' = cssFilters
  /\ filterStorage'.css = filterStorage.css

\* the operations that give a customer an override or a mode entry
EntryGivingOps == {"setCustomerFilters", "setCustomerMode", "applyGlobalToCustomers"}

\* C23: resetCustomerFilters(id) and clearOverridesForCustomers(ids) remove the
\* override and the mode entry of each customer named and leave the others alone;
\* a customer without either entry resolves (selectEffectiveFilters) to the
\* normalized global filters after every step, whatever the step does to the global
\* filters, and gets an entry again only from an operation that sets an override or
\* a mode.
C23_ClearRestoresInheritance ==
  [][/\ \A id \in CustomerIds : callResetCustomerFilters(id) => Cleared({id})
     /\ \A ids \in BulkIds : callClearOverridesForCustomers(ids) => Cleared(Range(ids))
     /\ \A id \in CustomerIds :
          NoEntries(id, customerFilters', customerFilterMode') =>
            selectEffectiveFilters(id, cssFilters', customerFilters',
                                   customerFilterMode', defaultFilters, normContext)
              = normalizeFilters(cssFilters', defaultFilters, normContext)
     /\ \A id \in CustomerIds :
          (/\ NoEntries(id, customerFilters, customerFilterMode)
           /\ ~NoEntries(id, customerFilters', customerFilterMode'))
            => lastOp'.op \in EntryGivingOps]_vars

\* c1 has just been cleared while c2 keeps a custom override that resolves to
\* something else than the global filters
C23_Witness ==
  /\ lastOp.op \in {"resetCustomerFilters", "clearOverridesForCustomers"}
  /\ NoEntries("c1", customerFilters, customerFilterMode)
  /\ ~IsNullFilters(cssFilters)
  /\ "c2" \in DOMAIN customerFilters
  /\ "c2" \in DOMAIN customerFilterMode
  /\ customerFilterMode["c2"] = "custom"
  /\ selectEffectiveFilters("c2", cssFilters, customerFilters, customerFilterMode,
                            defaultFilters, normContext)
       # selectEffectiveFilters("c1", cssFilters, customerFilters, customerFilterMode,
                                defaultFilters, normContext)

\* the step gives the customers in `ids` the mode custom and the override `g`, in the
\* store and under the storage keys, and changes neither the other customers nor the
\* global filters
SnapshotStored(ids, g) ==
  /\ \A id \in ids :
       /\ id \in DOMAIN customerFilters' /\ customerFilters'[id] = g
       /\ id \in DOMAIN customerFilterMode' /\ customerFilterMode'[id] = "custom"
  /\ filterStorage'.custom = customerFilters'
  /\ filterStorage'.mode = customerFilterMode'
  /\ \A id \in CustomerIds \ ids : EntriesKept(id)
  /\ cssFilters' = cssFilters
  /\ filterStorage'.css = filterStorage.css

\* customer `id` is in custom mode with a stored override
Overridden(id) ==
  /\ id \in DOMAIN customerFilters
  /\ id \in DOMAIN customerFilterMode
  /\ customerFilterMode[id] = "custom"

----------------------------------------------------------------------------
(* Properties of group deletion                                            *)

\* the filter sets the store holds and the ones persist has written
StoredFilterSets ==
  {f \in {cssFilters, filterStorage.css} : ~IsNullFilters(f)}
    \cup {customerFilters[id] : id \in DOMAIN customerFilters}
    \cup {filterStorage.custom[id] : id \in DOMAIN filterStorage.custom}

\* no filter set of `sets` names a group outside `ids`
ReferencesWithin(sets, ids) == \A f \in sets : Range(f.targetGroupIds) \subseteq ids

\* `after` is `before` less the group in targetGroupIds, every other field as it was
GroupStripped(before, after, groupId) ==
  /\ DOMAIN after = DOMAIN before
  /\ after.targetGroupIds = SelectSeq(before.targetGroupIds, LAMBDA id : id # groupId)
  /\ \A k \in DOMAIN before \ {"targetGroupIds"} : after[k] = before[k]

\* the step strips the group from the global filters and from every override, in the
\* store and under the storage keys, and changes nothing else of the filter store
OnlyGroupRemoved(groupId) ==
  /\ IsNullFilters(cssFilters') = IsNullFilters(cssFilters)
  /\ ~IsNullFilters(cssFilters) => GroupStripped(cssFilters, cssFilters', groupId)
  /\ DOMAIN customerFilters' = DOMAIN customerFilters
  /\ \A id \in DOMAIN customerFilters :
       GroupStripped(customerFilters[id], customerFilters'[id], groupId)
  /\ customerFilterMode' = customerFilterMode
  /\ filterStorage' = [css |-> cssFilters', custom |-> customerFilters',
                       mode |-> customerFilterMode']

----------------------------------------------------------------------------
(* GlobalFiltersPage: the group and the owner selection of the global       *)
(* filters                                                                 *)

\* GlobalFiltersPage: the values of cssOwnerOptions, the owners of the index entries
cssOwnerOptions ==
  Dedupe(SelectSeq([i \in 1..Len(index) |-> index[i].ownerCss],
                   LAMBDA owner : owner # ""))

\* the lists a multi-select over `options` can hand to its onChange
Selections(options) ==
  {SelectSeq(options, LAMBDA value : value \in chosen) : chosen \in SUBSET Range(options)}

\* global filters as an earlier session or another page may have left them: none, the
\* store test's set, and that set aimed at a group, at an owner, or at both
LeftGlobalFilters ==
  {NullFilters, TestCssFilters,
   WithField(TestCssFilters, <<"targetGroupIds", <<"g1">>>>),
   WithField(TestCssFilters, <<"targetCssOwners", <<"o1">>>>),
   WithField(WithField(TestCssFilters, <<"targetGroupIds", <<"g1", "g2">>>>),
             <<"targetCssOwners", <<"o2">>>>)}

\* GlobalFiltersPage: normalizedGlobal
normalizedGlobal ==
  IF IsNullFilters(cssFilters) THEN defaultFilters
  ELSE normalizeFilters(cssFilters, defaultFilters, normContext)

\* a filter set aims at groups and at owners at once
BothTargeted(filters) ==
  /\ ~IsNullFilters(filters)
  /\ Len(filters.targetCssOwners) > 0
  /\ Len(filters.targetGroupIds) > 0

\* the effect on [cssFilters, setCssFilters] that forgets to clear the owners
conflictEffectIdle(store) == store

\* the effect on [cssFilters, setCssFilters]
conflictEffect(store) ==
  IF IsNullFilters(store.cssFilters) THEN store
  ELSE IF BothTargeted(store.cssFilters)
    THEN setCssFilters(store, WithField(store.cssFilters, <<"targetCssOwners", <<>>>>))
    ELSE store

\* the page mounted over the loaded snapshots, two groups, two customers with an
\* owner each, and the stored global filters
GlobalPageInit ==
  /\ items = <<Ms1, Eos1, Eos2>>
  /\ Derived(items)
  /\ raw = NullFilters
  /\ pc = "render"
  /\ normalized = NullFilters
  /\ renormalized = NullFilters
  /\ visibleRaw = <<>>
  /\ visible = <<>>
  /\ exported = <<>>
  /\ LabelsIdle
  /\ groups = <<Group("g1"), Group("g2")>>
  /\ groupStorage = groups
  /\ selected = <<>>
  /\ emitted = <<>>
  /\ cssFilters \in LeftGlobalFilters
  /\ customerFilters = EmptyMap
  /\ customerFilterMode = EmptyMap
  /\ filterStorage = [css |-> cssFilters, custom |-> EmptyMap, mode |-> EmptyMap]
  /\ LET empty == [index |-> <<>>, customers |-> EmptyMap, activeCustomerId |-> NULL,
                   localStorage |-> [index |-> <<>>, customer |-> EmptyMap]]
         saved == addCustomer(addCustomer(empty, Customer("c1", "o1", TRUE)),
                              Customer("c2", "o2", TRUE))
     IN /\ index = saved.index
        /\ customers = saved.customers
        /\ activeCustomerId = saved.activeCustomerId
        /\ customerStorage = saved.localStorage
  /\ effective = NullFilters
  /\ lastOp = [op |-> "mount", id |-> NULL]

\* a step of the page: `position` is "render" when the effects have to run again
GlobalPageStep(op, position) ==
  /\ lastOp' = [op |-> op, id |-> NULL]
  /\ pc' = position
  /\ UNCHANGED <<snapshotVars, raw, normalized, renormalized, visibleRaw, visible,
                 exported, labelVars, pageVars, customerStoreVars, effective>>

\* GlobalFiltersPage.updateFilters(next), next a record of fields
globalUpdateFilters(next) ==
  /\ pc = "settled"
  /\ CommitFilterStore(setCssFilters(FilterStore, Spread(normalizedGlobal, next)))

\* the effects after a render: ensureCssFilters(defaultFilters), then the effect that
\* clears the owners of global filters aimed at groups and owners at once; a render
\* follows when they changed the store
PageEffects ==
  /\ pc = "render"
  /\ LET ensured == ensureCssFilters(FilterStore, defaultFilters)
         next == IF IsNullFilters(cssFilters) THEN ensured ELSE conflictEffect(FilterStore)
     IN /\ CommitFilterStore(next)
        /\ GlobalPageStep("effects",
                          IF next.cssFilters = cssFilters THEN "settled" ELSE "render")

onChangeGroupIds(next) ==
  /\ globalUpdateFilters(
       [targetGroupIds |-> next,
        targetCssOwners |-> IF Len(next) > 0 THEN <<>>
                            ELSE normalizedGlobal.targetCssOwners])
  /\ GlobalPageStep("onChangeGroupIds", "render")

onChangeCssOwnerIds(next) ==
  /\ globalUpdateFilters(
       [targetCssOwners |-> next,
        targetGroupIds |-> IF Len(next) > 0 THEN <<>>
                           ELSE normalizedGlobal.targetGroupIds])
  /\ GlobalPageStep("onChangeCssOwnerIds", "render")

OnChangeGroupIds == \E next \in Selections(GroupIdList) : onChangeGroupIds(next)

OnChangeCssOwnerIds ==
  \E next \in Selections(cssOwnerOptions) : onChangeCssOwnerIds(next)

\* the source and the status selects of the page
OnChangeOther ==
  \E next \in {[sources |-> <<"EOS">>], [sources |-> <<"Microsoft", "EOS">>],
               [statuses |-> <<"Planned">>], [statuses |-> <<>>]} :
    /\ globalUpdateFilters(next)
    /\ GlobalPageStep("updateFilters", "render")

\* GlobalFiltersPage.onReset
OnReset ==
  /\ pc = "settled"
  /\ CommitFilterStore(setCssFilters(FilterStore, defaultFilters))
  /\ GlobalPageStep("onReset", "render")

GlobalPageNext ==
  \/ PageEffects
  \/ OnChangeGroupIds
  \/ OnChangeCssOwnerIds
  \/ OnChangeOther
  \/ OnReset

SpecGlobalPage == GlobalPageInit /\ [][GlobalPageNext]_vars

\* C29: changing the group selection to a non-empty list clears targetCssOwners,
\* changing the owner selection to a non-empty list clears targetGroupIds, the effect
\* clears targetCssOwners of stored global filters that have both non-empty, and once
\* the handlers and the effects have run targetGroupIds and targetCssOwners are never
\* both non-empty.
C29_GroupsOrOwners ==
  [][/\ \A next \in Selections(GroupIdList) :
          (onChangeGroupIds(next) /\ Len(next) > 0) =>
            cssFilters'.targetGroupIds = next /\ cssFilters'.targetCssOwners = <<>>
     /\ \A next \in Selections(cssOwnerOptions) :
          (onChangeCssOwnerIds(next) /\ Len(next) > 0) =>
            cssFilters'.targetCssOwners = next /\ cssFilters'.targetGroupIds = <<>>
     /\ (PageEffects /\ BothTargeted(cssFilters)) =>
          /\ cssFilters'.targetCssOwners = <<>>
          /\ cssFilters'.targetGroupIds = cssFilters.targetGroupIds
     /\ pc' = "settled" => ~BothTargeted(cssFilters')]_vars

\* the effects have settled over stored global filters that were aimed at two groups
\* and an owner: the groups are kept, the owners are gone
C29_Witness ==
  /\ pc = "settled"
  /\ lastOp.op = "effects"
  /\ ~IsNullFilters(cssFilters)
  /\ cssFilters.targetGroupIds = <<"g1", "g2">>
  /\ cssFilters.targetCssOwners = <<>>
  /\ filterStorage.css = cssFilters

----------------------------------------------------------------------------
(* FilterSourceToggle (components/FilterSourceToggle)                      *)

MaxSelected == 3

\* the lists of at most `n` of the values in `values`
RECURSIVE ListsUpTo(_, _)
ListsUpTo(values, n) ==
  IF n = 0 THEN {<<>>}
  ELSE LET shorter == ListsUpTo(values, n - 1)
       IN shorter \cup {Append(list, value) : list \in shorter, value \in values}

\* the `selected` prop: sources of the application, a source no snapshot has any
\* more, in any order and with repetitions
SelectedLists == ListsUpTo(Range(ALL_RELEASE_SOURCES) \cup {"Stale"}, MaxSelected)

\* toggleSource that hands the list to onChange as it is
toggleSourceUnguarded(selection, source) ==
  LET current == resolveActiveSources(selection)
  IN IF Includes(current, source)
       THEN SelectSeq(current, LAMBDA item : item # source)
       ELSE Append(current, source)

\* the list toggleSource(source) hands to onChange
toggleSource(selection, source) ==
  LET current == resolveActiveSources(selection)
      next == IF Includes(current, source)
                THEN SelectSeq(current, LAMBDA item : item # source)
                ELSE Append(current, source)
  IN IF Len(next) = 0 THEN ALL_RELEASE_SOURCES ELSE next

\* the toggle rendered with some list of sources, before any click
ToggleInit ==
  /\ items = <<>>
  /\ Derived(items)
  /\ raw = NullFilters
  /\ pc = "idle"
  /\ normalized = NullFilters
  /\ renormalized = NullFilters
  /\ visibleRaw = <<>>
  /\ visible = <<>>
  /\ exported = <<>>
  /\ StoresEmpty
  /\ LabelsIdle
  /\ groups = <<>>
  /\ groupStorage = <<>>
  /\ selected \in SelectedLists
  /\ emitted = <<>>

\* a click on the checkbox of `source`; the page stores the list emitted and renders
\* the toggle with it
Toggle ==
  \E source \in Range(ALL_RELEASE_SOURCES) :
    /\ emitted' = toggleSource(selected, source)
    /\ selected' = emitted'
    /\ lastOp' = [op |-> "toggleSource", id |-> source]
    /\ UNCHANGED <<snapshotVars, pipeVars, labelVars, groupVars, filterStoreVars,
                   customerStoreVars, effective>>

ToggleNext == Toggle

SpecToggle == ToggleInit /\ [][ToggleNext]_vars

\* C30: whatever list is selected (an empty list standing for all sources) and
\* whatever was toggled before, a toggle hands onChange a non-empty list, and the
\* toggle of the only selected source hands it the list of all sources.
C30_NeverEmpty ==
  [][lastOp'.op = "toggleSource" =>
       /\ Len(emitted') > 0
       /\ Range(resolveActiveSources(selected)) = {lastOp'.id} =>
            emitted' = ALL_RELEASE_SOURCES]_vars

\* the only selected source, Microsoft, has just been deselected
C30_Witness ==
  /\ lastOp = [op |-> "toggleSource", id |-> "Microsoft"]
  /\ emitted = ALL_RELEASE_SOURCES
  /\ selected = ALL_RELEASE_SOURCES

----------------------------------------------------------------------------
(* The customer store under all its operations (store/useCustomerStore)    *)

MaxIndex == 2

\* the customers handed to addCustomer and updateCustomer
CustomerPayloads ==
  {Customer(id, OwnerOf(id), isActive) : id \in CustomerIds, isActive \in BOOLEAN}

\* what loadSeedOwnerMap() can return: no seed, or an owner for c2
SeedOwnerMaps == {EmptyMap, Put(EmptyMap, "c2", "o2")}

\* what importCustomers hands to replaceAll: nothing, or c1 inactive and c2 active
ImportedSets ==
  {[index |-> <<>>, customers |-> EmptyMap],
   [index |-> <<toIndexEntry(Customer("c1", OwnerOf("c1"), FALSE)),
                toIndexEntry(Customer("c2", OwnerOf("c2"), TRUE))>>,
    customers |-> Put(Put(EmptyMap, "c1", Customer("c1", OwnerOf("c1"), FALSE)),
                      "c2", Customer("c2", OwnerOf("c2"), TRUE))]}

\* the customer store over an empty localStorage and an empty seed
CustomerStoreInit ==
  /\ items = <<>>
  /\ Derived(items)
  /\ raw = NullFilters
  /\ pc = "idle"
  /\ normalized = NullFilters
  /\ renormalized = NullFilters
  /\ visibleRaw = <<>>
  /\ visible = <<>>
  /\ exported = <<>>
  /\ StoresEmpty
  /\ LabelsIdle
  /\ PagesIdle

\* a step of the customer store made by operation `op` on customer `id`
CustomerStoreStep(op, id) ==
  /\ lastOp' = [op |-> op, id |-> id]
  /\ UNCHANGED <<snapshotVars, pipeVars, labelVars, pageVars, filterStoreVars, effective>>

callSetActiveCustomer(id) ==
  /\ CommitCustomerStore(setActiveCustomer(CustomerStore, id))
  /\ CustomerStoreStep("setActiveCustomer", id)

callAddCustomer(customer) ==
  /\ Len(index) < MaxIndex
  /\ CommitCustomerStore(addCustomer(CustomerStore, customer))
  /\ CustomerStoreStep("addCustomer", customer.id)

callUpdateCustomer(customer) ==
  /\ CommitCustomerStore(updateCustomer(CustomerStore, customer))
  /\ CustomerStoreStep("updateCustomer", customer.id)

callDeleteCustomer(id) ==
  /\ CommitCustomerStore(deleteCustomer(CustomerStore, id))
  /\ CustomerStoreStep("deleteCustomer", id)

CallSetActiveCustomer == \E id \in CustomerIds \cup {NULL} : callSetActiveCustomer(id)

CallAddCustomer == \E customer \in CustomerPayloads : callAddCustomer(customer)

CallUpdateCustomer == \E customer \in CustomerPayloads : callUpdateCustomer(customer)

CallDeleteCustomer == \E id \in CustomerIds : callDeleteCustomer(id)

\* ClientsPage.onImportJson: replaceAll(parsed.index, parsed.customers)
CallReplaceAll ==
  \E parsed \in ImportedSets :
    /\ CommitCustomerStore(replaceAll(CustomerStore, parsed.index, parsed.customers))
    /\ CustomerStoreStep("replaceAll", NULL)

\* ClientsPage: the button that calls forceOwnerCssFromSeed
CallForceOwnerCssFromSeed ==
  \E seedOwnerMap \in SeedOwnerMaps :
    /\ CommitCustomerStore(forceOwnerCssFromSeed(CustomerStore, seedOwnerMap))
    /\ CustomerStoreStep("forceOwnerCssFromSeed", NULL)

CustomerStoreNext ==
  \/ CallSetActiveCustomer
  \/ CallAddCustomer
  \/ CallUpdateCustomer
  \/ CallDeleteCustomer
  \/ CallReplaceAll
  \/ CallForceOwnerCssFromSeed

SpecCustomerStore == CustomerStoreInit /\ [][CustomerStoreNext]_vars

----------------------------------------------------------------------------
(* Properties of the customer store                                        *)

\* C26: after any sequence of customer-store operations activeCustomerId is null or
\* the id of an index entry that is active (isActive is not false).
C26_ActiveCustomer ==
  \/ activeCustomerId = NULL
  \/ \E i \in 1..Len(index) :
       index[i].id = activeCustomerId /\ isEntryActive(index[i])

\* an inactive customer was just added while another one stays the active one
C26_Witness ==
  /\ lastOp.op = "addCustomer"
  /\ activeCustomerId # NULL
  /\ activeCustomerId # lastOp.id
  /\ \E i \in 1..Len(index) : index[i].id = lastOp.id /\ ~isEntryActive(index[i])

\* the index `entries` has at most one entry per customer id, and its ids are the
\* keys of the map `byId`
IndexConsistent(entries, byId) ==
  /\ \A i, j \in 1..Len(entries) : entries[i].id = entries[j].id => i = j
  /\ {entries[i].id : i \in 1..Len(entries)} = DOMAIN byId

\* C27 as stated: every addCustomer, updateCustomer and deleteCustomer step keeps the
\* index free of duplicate ids and its ids equal to the keys of the customers map.
C27_IndexConsistency_AsStated ==
  [][(/\ IndexConsistent(index, customers)
      /\ lastOp'.op \in {"addCustomer", "updateCustomer", "deleteCustomer"})
       => IndexConsistent(index', customers')]_vars

\* the step is one that ClientsPage makes: addCustomer with an id that is no key of
\* the customers map, updateCustomer with an id that is one, or deleteCustomer
PageDiscipline ==
  \/ lastOp'.op = "addCustomer" /\ lastOp'.id \notin DOMAIN customers
  \/ lastOp'.op = "updateCustomer" /\ lastOp'.id \in DOMAIN customers
  \/ lastOp'.op = "deleteCustomer"

\* C27 (amended): addCustomer with an id that is no key of the customers map,
\* updateCustomer with an id that is one, and deleteCustomer keep the index free of
\* duplicate ids and its ids equal to the keys of the customers map.
C27_IndexConsistency ==
  [][(IndexConsistent(index, customers) /\ PageDiscipline)
       => IndexConsistent(index', customers')]_vars

\* a second customer has been added and the index lists both customers once
C27_Witness ==
  /\ lastOp.op = "addCustomer"
  /\ Len(index) = 2
  /\ IndexConsistent(index, customers)

----------------------------------------------------------------------------
(* The Markdown export (services/ExportService)                            *)

MaxExportItems == 3

\* lines.join('\n') is kept as the sequence of its lines; a line is the fixed text
\* of its template and the value interpolated into it
RECURSIVE Flatten(_)
Flatten(seqs) == IF seqs = <<>> THEN <<>> ELSE Head(seqs) \o Flatten(Tail(seqs))

\* groupByProduct keyed by the product and the source of an item
groupByProductAndSource(list) ==
  LET names == Dedupe([i \in Indices(list) |-> <<list[i].productName, list[i].source>>])
  IN [k \in 1..Len(names) |->
        [product |-> names[k][1],
         items |-> SelectSeq(list, LAMBDA item :
                     <<item.productName, item.source>> = names[k])]]

\* the groups in the key order of the accumulator: a key is created when its first
\* item is met, each item is pushed onto the group of its productName
groupByProduct(list) ==
  LET names == Dedupe([i \in Indices(list) |-> list[i].productName])
  IN [k \in 1..Len(names) |->
        [product |-> names[k],
         items |-> SelectSeq(list, LAMBDA item : item.productName = names[k])]]

\* the items of the model carry no sourceUrl and no learnUrl, so both links take
\* their fallback text
buildMarkdown(list, customerName) ==
  LET grouped == groupByProduct(list)
      Blank == [line |-> "", value |-> ""]
      Bullets(item) ==
        <<[line |-> "- ", value |-> item.title],
          [line |-> "  - Stato: ", value |-> item.status],
          [line |-> "  - Data: ", value |-> item.releaseDate],
          [line |-> "  - Sintesi: ", value |-> item.description],
          [line |-> "  - Link: ", value |-> "Fonte non disponibile"],
          [line |-> "  - Documentazione: ", value |-> "Documentazione non disponibile"]>>
      Section(group) ==
        <<[line |-> "## ", value |-> group.product], Blank>>
          \o Flatten([j \in Indices(group.items) |-> Bullets(group.items[j])])
          \o <<Blank>>
  IN <<[line |-> "# Release Update - ", value |-> customerName], Blank>>
       \o Flatten([k \in Indices(grouped) |-> Section(grouped[k])])

\* the items handed to the export: two Microsoft items and one EOS item of product
\* "a", and items of other products, one of them with no product name
ExportItems ==
  {Ms1, [Ms1 EXCEPT !.id = "ms-3", !.title = <<"c", "c">>],
   [Eos1 EXCEPT !.productName = <<"a">>], Eos1, Ms2, Eos3}

ExportLists == UNION {[1..n -> ExportItems] : n \in 0..MaxExportItems}

ExportInit ==
  /\ items \in ExportLists
  /\ Derived(items)
  /\ raw = NullFilters
  /\ pc = "export"
  /\ normalized = NullFilters
  /\ renormalized = NullFilters
  /\ visibleRaw = <<>>
  /\ visible = <<>>
  /\ exported = <<>>
  /\ StoresEmpty
  /\ LabelsIdle
  /\ PagesIdle

\* DashboardPage: const content = buildMarkdown(sortedItems, name)
Export ==
  /\ pc = "export"
  /\ \E customerName \in CustomerIds : exported' = buildMarkdown(items, customerName)
  /\ pc' = "exported"
  /\ UNCHANGED <<snapshotVars, raw, normalized, renormalized, visibleRaw, visible,
                 storeVars, labelVars, pageVars>>

ExportNext == Export

SpecExport == ExportInit /\ [][ExportNext]_vars

\* the positions of the product section headers in the exported lines
HeaderLines == {k \in 1..Len(exported) : exported[k].line = "## "}

\* the titles listed in the section that the header at line k opens
TitlesUnder(k) ==
  LET following == {h \in HeaderLines : h > k}
      last == IF following = {} THEN Len(exported)
              ELSE (CHOOSE h \in following : \A g \in following : h <= g) - 1
      bullets == SelectSeq(SubSeq(exported, k + 1, last), LAMBDA l : l.line = "- ")
  IN [j \in 1..Len(bullets) |-> bullets[j].value]

\* the titles of the given items of a product, in the order given
TitlesOf(product) ==
  LET group == SelectSeq(items, LAMBDA item : item.productName = product)
  IN [j \in 1..Len(group) |-> group[j].title]

\* C17: buildMarkdown emits exactly one section header per distinct productName of
\* the given items, and each section lists the items of its product in the order
\* in which they were given
C17_ExportGrouping ==
  pc = "exported" =>
    /\ \A i \in Indices(items) :
         Cardinality({k \in HeaderLines : exported[k].value = items[i].productName}) = 1
    /\ \A k \in HeaderLines :
         /\ \E i \in Indices(items) : items[i].productName = exported[k].value
         /\ TitlesUnder(k) = TitlesOf(exported[k].value)

\* two items of one product given around an item of another product: two headers,
\* the first section listing both items of the shared product in the order given
C17_Witness ==
  /\ pc = "exported"
  /\ Len(items) = 3
  /\ items[1].productName = items[3].productName
  /\ items[1].productName # items[2].productName
  /\ items[1].title # items[3].title
  /\ Cardinality(HeaderLines) = 2
  /\ TitlesUnder(3) = <<items[1].title, items[3].title>>

----------------------------------------------------------------------------
(* Label canonicalization on its own: normalizeProductLabel applied to a   *)
(* raw label, and again to its own result                                  *)

MaxLabelLen == 4

\* the characters raw labels are made of: letters of either case, the URL scheme
\* and its separator, a blank, and the four characters of link markup
LabelChars == {"a", "B", "h", ":", " ", "[", "]", "(", ")"}

RawLabels == UNION {[1..n -> LabelChars] : n \in 0..MaxLabelLen}

LabelInit ==
  /\ rawLabel \in RawLabels
  /\ labelPc = "raw"
  /\ canonical = <<>>
  /\ recanonical = <<>>
  /\ items = <<>>
  /\ Derived(items)
  /\ raw = NullFilters
  /\ pc = "idle"
  /\ normalized = NullFilters
  /\ renormalized = NullFilters
  /\ visibleRaw = <<>>
  /\ visible = <<>>
  /\ exported = <<>>
  /\ StoresEmpty
  /\ PagesIdle

\* normalizeProductLabel(raw)
Canonicalize ==
  /\ labelPc = "raw"
  /\ canonical' = normalizeProductLabel(rawLabel)
  /\ labelPc' = "once"
  /\ UNCHANGED <<snapshotVars, pipeVars, storeVars, pageVars, rawLabel, recanonical>>

\* normalizeProductLabel(normalizeProductLabel(raw))
Recanonicalize ==
  /\ labelPc = "once"
  /\ recanonical' = normalizeProductLabel(canonical)
  /\ labelPc' = "twice"
  /\ UNCHANGED <<snapshotVars, pipeVars, storeVars, pageVars, rawLabel, canonical>>

LabelNext == Canonicalize \/ Recanonicalize

SpecLabel == LabelInit /\ [][LabelNext]_vars

\* String.prototype.toUpperCase
ToUpper(s) == [i \in 1..Len(s) |-> UpperChar(s[i])]

\* the label with every blank written twice
RECURSIVE WidenBlanks(_)
WidenBlanks(s) ==
  IF s = <<>> THEN <<>>
  ELSE (IF Head(s) \in Whitespace THEN <<Head(s), "\t">> ELSE <<Head(s)>>)
       \o WidenBlanks(Tail(s))

\* a label free of link markup, which can stand as the text of a markdown link
PlainLabel(s) == \A i \in 1..Len(s) : s[i] \notin Brackets

\* the forms of a label that differ from it only by letter case, by whitespace or
\* by being wrapped as the text of a markdown link
CosmeticForms(s) ==
  {ToLower(s), ToUpper(s), <<" ">> \o s \o <<"\t">>, WidenBlanks(s)}
    \cup (IF PlainLabel(s) /\ s # <<>>
          THEN {<<"[">> \o s \o <<"]", "(", "a", ")">>}
          ELSE {})

\* C11 (first half): normalizing a normalized label changes nothing
C11_Idempotent == labelPc = "twice" => recanonical = canonical

\* C11 (second half): every cosmetic form of a label normalizes as the label does
C11_CosmeticFormsAgree ==
  labelPc = "once" =>
    \A form \in CosmeticForms(rawLabel) : normalizeProductLabel(form) = canonical

\* C11: normalizeProductLabel is idempotent, and labels that differ only by letter
\* case, whitespace or markdown-link wrapping normalize to the same value
C11_LabelCanonicalization == C11_Idempotent /\ C11_CosmeticFormsAgree

====
